---- MODULE Spec2Model ----
(***************************************************************************)
(* A model of the vscode-arduino extension core:                           *)
(*   - BoardManager (package index merge, installed-platform resolution),  *)
(*   - the board descriptor parser,                                        *)
(*   - ExampleManager (example tree, architecture filter),                 *)
(*   - ArduinoActivator and the local web bridge.                          *)
(* Each part has its own specification over the shared variable list; the  *)
(* variables of the other parts stay at their initial value.               *)
(***************************************************************************)
EXTENDS Integers, Sequences, FiniteSets, TLC

VARIABLES
    \* ---- BoardManager and its files
    indexFiles,     \* number of index files: 1 is package_index.json, the others are additional ones
    indexContent,   \* index file -> its parsed JSON (rawModel.packages)
    present,        \* the index files that exist under packagePath
    bundled,        \* package_index_bundled.json of the installation directory
    userDir,        \* <packagePath>/packages, as readdir lists it
    dc,             \* DeviceContext: board and configuration
    bm,             \* the BoardManager's fields
    lp,             \* the loadPackages calls: where each stands
    picker,         \* the quick pick that changeBoardType shows and awaits
    \* ---- ArduinoActivator and the local web bridge
    initializePromise,  \* ArduinoActivator._initializePromise
    initPc,             \* where the initialization body stands
    initStarted,        \* how many times the initialization body was started
    activateCalls,      \* the calls of activate()
    ctx,                \* what ArduinoContext and arduinoApp publish
    loadCalls,          \* how many loadPackages calls activation and the bridge made
    currentBoardSet,    \* boardManager.currentBoard is set
    req,                \* the HTTP requests of the web bridge
    \* ---- ExampleManager and the directory it walks
    exDirs,         \* the directories: paths relative to the root, <<>> is the root itself
    exFiles,        \* the files below the root
    exPc,           \* "fs" while the directory is being filled, "parsed" afterwards
    exTree,         \* what parseExamples built: rootNode.children and exampleMap
    probe,          \* the last call of isSupported: its inputs and its result
    le,             \* the loadExamples call, the library folders and the current board
    \* ---- the board descriptor parser
    descEol,        \* the line terminator of the descriptor file
    descLines,      \* the text lines of the descriptor file
    descPc,         \* "edit" while the file is being written, "parsed" afterwards
    descBoards,     \* what parseBoardDescriptorFile returned
    \* ---- the earlier BoardManager of src/arduino/exampleManager.ts
    old             \* its fields and where its loadPackages call stands

bmVars == <<indexFiles, indexContent, present, bundled, userDir, dc, bm, lp, picker>>
actVars == <<initializePromise, initPc, initStarted, activateCalls, ctx, loadCalls,
             currentBoardSet, req>>

exVars == <<exDirs, exFiles, exPc, exTree, probe, le>>
descVars == <<descEol, descLines, descPc, descBoards>>

oldVars == <<old>>

vars == <<bmVars, actVars, exVars, descVars, oldVars>>

\* the parts that are not used by a specification rest at these values
ExIdle ==
    /\ exDirs = {}
    /\ exFiles = {}
    /\ exPc = "off"
    /\ exTree = [children |-> <<>>, exampleMap |-> <<>>]
    /\ probe = [called |-> FALSE]
    /\ le = [pc |-> "off"]

DescIdle ==
    /\ descEol = <<>>
    /\ descLines = <<>>
    /\ descPc = "off"
    /\ descBoards = <<>>

(***************************************************************************)
(* Generic helpers                                                         *)
(***************************************************************************)
RECURSIVE FoldSeq(_, _, _)
FoldSeq(Op(_, _), acc, s) ==
    IF s = <<>> THEN acc ELSE FoldSeq(Op, Op(acc, Head(s)), Tail(s))

Range(s) == {s[i] : i \in DOMAIN s}

\* Array.prototype.find: the index of the first element satisfying Test, 0 if none
FindIndex(s, Test(_)) ==
    IF \E i \in DOMAIN s : Test(s[i])
    THEN CHOOSE i \in DOMAIN s : Test(s[i]) /\ \A j \in 1..(i - 1) : ~Test(s[j])
    ELSE 0

\* JavaScript undefined for a string field; both undefined and "" are falsy
Undefined == "undefined"
Falsy(s) == s \in {Undefined, ""}

(***************************************************************************)
(* BoardManager: the data                                                  *)
(***************************************************************************)
Pkgs == {"arduino", "esp"}
Archs == {"avr", "sam"}
PkgOrder == <<"arduino", "esp">>
ArchOrder == <<"avr", "sam">>
Pairs == Pkgs \X Archs

\* bound: the number of index files (package_index.json and the additional ones)
MaxIndexFiles == 2

Calls == {"c1", "c2"}

DefaultPath(pkg, arch) == <<"defaultPackagePath", pkg, arch>>
UserPath(pkg, arch, ver) == <<"packagePath", "packages", pkg, "hardware", arch, ver>>

\* the platform entries an index file can list: a version with its boards
PlatEntries ==
    {[architecture |-> a, version |-> vb[1], boards |-> vb[2]] :
        a \in Archs,
        vb \in {<<"1.0", <<"Uno">> >>, <<"2.0", <<"Uno", "Due">> >>}}

\* the index files: one package with one or two platform entries, or two packages
FileSet ==
    {<<[name |-> n, platforms |-> <<p>>]>> : n \in Pkgs, p \in PlatEntries}
    \cup {<<[name |-> n, platforms |-> pq]>> :
            n \in Pkgs,
            pq \in {x \in PlatEntries \X PlatEntries : x[1].version # x[2].version}}
    \cup {<<[name |-> "arduino", platforms |-> <<pq[1]>>],
            [name |-> "esp", platforms |-> <<pq[2]>>]>> :
            pq \in {x \in PlatEntries \X PlatEntries :
                        x[1].version = "1.0" /\ x[2].version = "1.0"}}

\* the initial fields of a BoardManager (constructor, lines 35-44): nothing loaded
\* indexLog is a history field: the platform entries parsed since _platforms was last reset
\* installedScan is the local `installed` of the last loadInstalledPlatforms
\* last is a history field: the last operation that wrote to the manager
NewBoardManager ==
    [packages |-> <<>>, platforms |-> <<>>, installedPlatforms |-> <<>>,
     boards |-> <<>>, currentBoard |-> <<>>,
     boardStatusText |-> "", boardStatusShown |-> FALSE, configStatusShown |-> FALSE,
     indexLog |-> <<>>, installedScan |-> <<>>, last |-> [op |-> "none"]]

\* no quick pick is open
NoPicker == [open |-> FALSE, items |-> <<>>]

(***************************************************************************)
(* parsePackageIndex                                                       *)
(***************************************************************************)
\* util.union(a, b, compare): a, then the items of b that no item of the result equals
union(a, b) ==
    FoldSeq(LAMBDA result, item :
                IF \E k \in DOMAIN result : result[k] = item
                THEN result ELSE Append(result, item),
            a, b)

\* parsePlatform with the package name left out of the comparison of line 204
parsePlatform_archOnly(plats, pkgName, plat) ==
    LET addedPlatform ==
            FindIndex(plats, LAMBDA p : p.architecture = plat.architecture)
    IN  IF addedPlatform # 0
        THEN [plats EXCEPT ![addedPlatform].boards = union(@, plat.boards),
                           ![addedPlatform].versions = Append(@, plat.version)]
        ELSE Append(plats,
                    [package |-> pkgName, architecture |-> plat.architecture,
                     version |-> "", versions |-> <<plat.version>>,
                     boards |-> plat.boards,
                     installedVersion |-> Undefined, rootBoardPath |-> <<>>,
                     defaultPlatform |-> <<>>])

\* parsePlatform without the union of lines 207-209: the boards of the first entry stay
parsePlatform_noUnion(plats, pkgName, plat) ==
    LET addedPlatform ==
            FindIndex(plats, LAMBDA p : p.architecture = plat.architecture
                                        /\ p.package = pkgName)
    IN  IF addedPlatform # 0
        THEN [plats EXCEPT ![addedPlatform].versions = Append(@, plat.version)]
        ELSE Append(plats,
                    [package |-> pkgName, architecture |-> plat.architecture,
                     version |-> "", versions |-> <<plat.version>>,
                     boards |-> plat.boards,
                     installedVersion |-> Undefined, rootBoardPath |-> <<>>,
                     defaultPlatform |-> <<>>])

\* one iteration of pkg.platforms.forEach, lines 201-217
parsePlatform(plats, pkgName, plat) ==
    LET addedPlatform ==
            FindIndex(plats, LAMBDA p : p.architecture = plat.architecture
                                        /\ p.package = pkgName)
    IN  IF addedPlatform # 0
        THEN [plats EXCEPT ![addedPlatform].boards = union(@, plat.boards),
                           ![addedPlatform].versions = Append(@, plat.version)]
        ELSE Append(plats,
                    [package |-> pkgName, architecture |-> plat.architecture,
                     version |-> "", versions |-> <<plat.version>>,
                     boards |-> plat.boards,
                     installedVersion |-> Undefined, rootBoardPath |-> <<>>,
                     defaultPlatform |-> <<>>])

\* the platform entries of a file in reading order, each with its package name
EntriesOf(rawPackages) ==
    FoldSeq(LAMBDA acc, pkg :
                acc \o [i \in DOMAIN pkg.platforms |->
                            [package |-> pkg.name,
                             architecture |-> pkg.platforms[i].architecture,
                             version |-> pkg.platforms[i].version,
                             boards |-> pkg.platforms[i].boards]],
            <<>>, rawPackages)

\* lines 197-219; `this._packages.concat(...)` returns a new array and leaves _packages as it is
parsePackageIndex(st, rawPackages) ==
    [st EXCEPT
        !.platforms =
            FoldSeq(LAMBDA plats, pkg :
                        FoldSeq(LAMBDA ps, plat : parsePlatform(ps, pkg.name, plat),
                                plats, pkg.platforms),
                    @, rawPackages),
        !.indexLog = @ \o EntriesOf(rawPackages)]

(***************************************************************************)
(* Installed platforms: the installation directory and the user directory  *)
(***************************************************************************)
\* getDefaultPlatforms without the test of platform.version in line 250
getDefaultPlatforms_keepVersionless(bundledFile) ==
    IF bundledFile.kind # "json"
    THEN <<>>
    ELSE FoldSeq(LAMBDA acc, pkg :
                    FoldSeq(LAMBDA ps, platform :
                                Append(ps,
                                        [packageName |-> pkg.name,
                                         architecture |-> platform.architecture,
                                         version |-> platform.version,
                                         rootBoardPath |-> DefaultPath(pkg.name, platform.architecture),
                                         defaultPlatform |-> TRUE]),
                            acc, pkg.platforms),
                 <<>>, bundledFile.packages)

\* lines 239-265: every failure (missing file, invalid JSON) is swallowed by the catch
getDefaultPlatforms(bundledFile) ==
    IF bundledFile.kind # "json"
    THEN <<>>
    ELSE FoldSeq(LAMBDA acc, pkg :
                    FoldSeq(LAMBDA ps, platform :
                                IF Falsy(platform.version)
                                THEN ps
                                ELSE Append(ps,
                                        [packageName |-> pkg.name,
                                         architecture |-> platform.architecture,
                                         version |-> platform.version,
                                         rootBoardPath |-> DefaultPath(pkg.name, platform.architecture),
                                         defaultPlatform |-> TRUE]),
                            acc, pkg.platforms),
                 <<>>, bundledFile.packages)

\* lines 268-295
getManuallyInstalledPlatforms(userPackages) ==
    IF ~userPackages.exists
    THEN <<>>
    ELSE FoldSeq(LAMBDA acc, pkgDir :
                    IF ~pkgDir.hasHardware
                    THEN acc
                    ELSE FoldSeq(LAMBDA ps, archDir :
                                    IF Len(archDir.versions) = 0
                                    THEN ps
                                    ELSE Append(ps,
                                            [packageName |-> pkgDir.packageName,
                                             architecture |-> archDir.architecture,
                                             version |-> archDir.versions[1],
                                             rootBoardPath |-> UserPath(pkgDir.packageName,
                                                                        archDir.architecture,
                                                                        archDir.versions[1]),
                                             defaultPlatform |-> FALSE]),
                                 acc, pkgDir.architectures),
                 <<>>, userPackages.dirs)

\* overwriteInstalled that keeps the bundled entry when the pair is found (no lines 143-145)
overwriteInstalled_keepBundled(installedPlatforms, plat) ==
    LET find == FindIndex(installedPlatforms,
                          LAMBDA p : p.packageName = plat.packageName
                                     /\ p.architecture = plat.architecture)
    IN  IF find = 0
        THEN Append(installedPlatforms, plat)
        ELSE installedPlatforms

\* lines 136-147: one iteration of manuallyInstalled.forEach
overwriteInstalled(installedPlatforms, plat) ==
    LET find == FindIndex(installedPlatforms,
                          LAMBDA p : p.packageName = plat.packageName
                                     /\ p.architecture = plat.architecture)
    IN  IF find = 0
        THEN Append(installedPlatforms, plat)
        ELSE [installedPlatforms EXCEPT ![find].defaultPlatform = plat.defaultPlatform,
                                        ![find].version = plat.version,
                                        ![find].rootBoardPath = plat.rootBoardPath]

\* lines 132-149
getInstalledPlatforms(bundledFile, userPackages) ==
    FoldSeq(overwriteInstalled, getDefaultPlatforms(bundledFile),
            getManuallyInstalledPlatforms(userPackages))

\* lines 223-235: one iteration of installed.forEach
\* _installedPlatforms holds references to elements of _platforms: their indices
markInstalled(st, platform) ==
    LET existingPlatform ==
            FindIndex(st.platforms,
                      LAMBDA p : p.package = platform.packageName
                                 /\ p.architecture = platform.architecture)
    IN  IF existingPlatform = 0
        THEN st
        ELSE IF Falsy(st.platforms[existingPlatform].installedVersion)
        THEN [st EXCEPT
                !.platforms[existingPlatform].defaultPlatform = <<platform.defaultPlatform>>,
                !.platforms[existingPlatform].installedVersion = platform.version,
                !.platforms[existingPlatform].rootBoardPath = platform.rootBoardPath,
                !.installedPlatforms = Append(@, existingPlatform)]
        ELSE [st EXCEPT
                !.platforms[existingPlatform].defaultPlatform = <<platform.defaultPlatform>>]

\* lines 221-236
loadInstalledPlatforms(st, bundledFile, userPackages) ==
    LET installed == getInstalledPlatforms(bundledFile, userPackages)
    IN  FoldSeq(markInstalled, [st EXCEPT !.installedScan = installed], installed)

(***************************************************************************)
(* Installed boards and the status bar                                     *)
(***************************************************************************)
\* the board ids that boards.txt of a platform directory declares; the bundled
\* platforms and the user-installed 1.8.0 have a boards.txt, other directories none
BoardsTxt(rootBoardPath) ==
    IF rootBoardPath[1] = "defaultPackagePath"
    THEN [exists |-> TRUE, ids |-> <<"uno">>]
    ELSE IF rootBoardPath[Len(rootBoardPath)] = "1.8.0"
    THEN [exists |-> TRUE, ids |-> <<"uno", "nano", "bare">>]
    ELSE [exists |-> FALSE, ids |-> <<>>]

\* parseBoardDescriptor of ./board: the boards of a file, keyed package:architecture:id;
\* nano has a configuration menu, whose selected option is its customConfig,
\* and bare has parameter lines but no name line
parseBoardDescriptor(ids, plat, platIndex) ==
    [i \in DOMAIN ids |->
        [key |-> <<plat.package, plat.architecture, ids[i]>>,
         name |-> IF ids[i] = "bare" THEN Undefined ELSE ids[i], platform |-> platIndex,
         rootBoardPath |-> plat.rootBoardPath,
         customConfig |-> IF ids[i] = "nano" THEN "cpu=atmega328" ELSE ""]]

\* Map.set: replaces the value of an existing key in place, else appends
MapSet(map, bd) ==
    LET at == FindIndex(map, LAMBDA e : e.key = bd.key)
    IN  IF at = 0 THEN Append(map, bd) ELSE [map EXCEPT ![at] = bd]

MapHas(map, key) == \E i \in DOMAIN map : map[i].key = key
MapGet(map, key) == map[FindIndex(map, LAMBDA e : e.key = key)]

\* lines 304-313
loadInstalledBoardsFromPlatform(st, platIndex) ==
    LET plat == st.platforms[platIndex]
        file == BoardsTxt(plat.rootBoardPath)
    IN  IF file.exists
        THEN [st EXCEPT !.boards =
                FoldSeq(MapSet, @, parseBoardDescriptor(file.ids, plat, platIndex))]
        ELSE st

\* lines 297-302
loadInstalledBoards(st) ==
    FoldSeq(loadInstalledBoardsFromPlatform, [st EXCEPT !.boards = <<>>],
            st.installedPlatforms)

\* lines 179-195
updateStatusBar(st, deviceContext) ==
    IF MapHas(st.boards, deviceContext.board)
    THEN [st EXCEPT !.currentBoard = <<MapGet(st.boards, deviceContext.board)>>,
                    !.boardStatusText = MapGet(st.boards, deviceContext.board).name,
                    !.configStatusShown = (deviceContext.configuration # "")]
    ELSE [st EXCEPT !.boardStatusText = "<Select Board Type>",
                    !.configStatusShown = FALSE]

(***************************************************************************)
(* loadPackages, lines 46-75: the code between two awaits is one step      *)
(***************************************************************************)
\* lines 68-74
finishLoad(st, bundledFile, userPackages, deviceContext) ==
    [updateStatusBar(loadInstalledBoards(loadInstalledPlatforms(st, bundledFile, userPackages)),
                     deviceContext)
        EXCEPT !.boardStatusShown = TRUE, !.last = [op |-> "load"]]

\* runLoop with the test of `update` in line 60 left out
RECURSIVE runLoop_ignoreUpdate(_, _, _, _, _)
runLoop_ignoreUpdate(st, i, update, checked, exist) ==
    IF i > indexFiles
    THEN [bm |-> finishLoad(st, bundled, userDir, dc), pc |-> "done", idx |-> i]
    ELSE IF ~checked /\ i \notin exist
    THEN [bm |-> st, pc |-> "setPref", idx |-> i]
    ELSE IF i \notin exist
    THEN [bm |-> st, pc |-> "failed", idx |-> i]
    ELSE runLoop_ignoreUpdate(parsePackageIndex(st, indexContent[i]), i + 1, update, FALSE, exist)

\* lines 59-74 from index file i on, up to the next await, a throw or the end.
\* checked: the existence test of line 60 is already behind file i (the call
\* comes back from the awaits of lines 61-62)
RECURSIVE runLoop(_, _, _, _, _)
runLoop(st, i, update, checked, exist) ==
    IF i > indexFiles
    THEN [bm |-> finishLoad(st, bundled, userDir, dc), pc |-> "done", idx |-> i]
    ELSE IF ~checked /\ ~update /\ i \notin exist
    THEN [bm |-> st, pc |-> "setPref", idx |-> i]
    ELSE IF i \notin exist
    THEN [bm |-> st, pc |-> "failed", idx |-> i]      \* readFileSync throws
    ELSE runLoop(parsePackageIndex(st, indexContent[i]), i + 1, update, FALSE, exist)

\* a loadPackages call that was not made yet, and one that is never made.
\* trace is a history field: the setPref and initialize(true) calls and the reads
\* of index files the call made, each with the index files that existed then
\* (file 0 stands for the refresh of lines 52-53, which is for no particular file)
IdleCall == [pc |-> "idle", update |-> FALSE, idx |-> 1, trace |-> <<>>]
OffCall == [pc |-> "off", update |-> FALSE, idx |-> 1, trace |-> <<>>]

Event(ev, file, exist) == [ev |-> ev, file |-> file, present |-> exist]

\* what a run of the loop from file i that ended as r adds to the trace
traced(trace, i, r, exist) ==
    trace \o [k \in 1..(r.idx - i) |-> Event("read", i + k - 1, exist)]
          \o (IF r.pc = "setPref" THEN <<Event("setPref", r.idx, exist)>> ELSE <<>>)

\* lines 47-49
resetLoad(st) ==
    [st EXCEPT !.packages = <<>>, !.platforms = <<>>, !.installedPlatforms = <<>>,
               !.indexLog = <<>>, !.last = [op |-> "loading"]]

\* the call, up to its first await
LoadStart(c, update) ==
    /\ lp[c].pc = "idle"
    /\ IF update
       THEN /\ bm' = resetLoad(bm)
            /\ lp' = [lp EXCEPT ![c] = [pc |-> "updatePref", update |-> TRUE, idx |-> 1,
                                         trace |-> <<Event("setPref", 0, present)>>]]
       ELSE LET r == runLoop(resetLoad(bm), 1, FALSE, FALSE, present)
            IN  /\ bm' = r.bm
                /\ lp' = [lp EXCEPT ![c] = [pc |-> r.pc, update |-> FALSE, idx |-> r.idx,
                                             trace |-> traced(<<>>, 1, r, present)]]
    /\ UNCHANGED <<indexFiles, indexContent, present, bundled, userDir, dc, picker>>
    /\ UNCHANGED <<actVars, exVars, descVars, oldVars>>

\* setPref (line 52 or 61) has resolved: initialize(true) is called and awaited
LoadSetPrefDone(c) ==
    /\ lp[c].pc \in {"updatePref", "setPref"}
    /\ lp' = [lp EXCEPT ![c].pc = IF lp[c].pc = "updatePref" THEN "updateInit" ELSE "init",
                         ![c].trace = Append(@, Event("initialize",
                                                      IF lp[c].pc = "updatePref" THEN 0
                                                      ELSE lp[c].idx,
                                                      present))]
    /\ UNCHANGED <<indexFiles, indexContent, present, bundled, userDir, dc, bm, picker>>
    /\ UNCHANGED <<actVars, exVars, descVars, oldVars>>

\* initialize(true) (line 53 or 63) has resolved: it has fetched the index files
\* it could; the loop goes on
LoadInitDone(c, fetched) ==
    /\ lp[c].pc \in {"updateInit", "init"}
    /\ present' = present \cup fetched
    /\ LET r == IF lp[c].pc = "updateInit"
                THEN runLoop(bm, 1, TRUE, FALSE, present \cup fetched)
                ELSE runLoop(bm, lp[c].idx, FALSE, TRUE, present \cup fetched)
           from == IF lp[c].pc = "updateInit" THEN 1 ELSE lp[c].idx
       IN  /\ bm' = r.bm
           /\ lp' = [lp EXCEPT ![c].pc = r.pc, ![c].idx = r.idx,
                                ![c].trace = traced(@, from, r, present \cup fetched)]
    /\ UNCHANGED <<indexFiles, indexContent, bundled, userDir, dc, picker>>
    /\ UNCHANGED <<actVars, exVars, descVars, oldVars>>

\* setPref or initialize(true) rejects: the call throws
LoadAwaitFails(c) ==
    /\ lp[c].pc \in {"updatePref", "updateInit", "setPref", "init"}
    /\ lp' = [lp EXCEPT ![c].pc = "failed"]
    /\ UNCHANGED <<indexFiles, indexContent, present, bundled, userDir, dc, bm, picker>>
    /\ UNCHANGED <<actVars, exVars, descVars, oldVars>>

(***************************************************************************)
(* The files the BoardManager reads                                        *)
(***************************************************************************)
\* package_index_bundled.json listing the pairs f gives a version
\* ("" is an entry without version)
ArchsIn(f, pkg) == SelectSeq(ArchOrder, LAMBDA a : f[<<pkg, a>>] # <<"absent">>)

MkBundled(f) ==
    [kind |-> "json",
     packages |->
        [i \in DOMAIN SelectSeq(PkgOrder, LAMBDA n : ArchsIn(f, n) # <<>>) |->
            LET n == SelectSeq(PkgOrder, LAMBDA m : ArchsIn(f, m) # <<>>)[i]
            IN  [name |-> n,
                 platforms |-> [k \in DOMAIN ArchsIn(f, n) |->
                                    [architecture |-> ArchsIn(f, n)[k],
                                     version |-> f[<<n, ArchsIn(f, n)[k]>>][1]]]]]]

BundledChoices == {<<"absent">>, <<"">>, <<"1.6.0">>}

\* the files vary over three of the four pairs; (esp, sam) is installed nowhere
Absent(choice) == [p \in Pairs |-> IF p = <<"esp", "sam">> THEN <<"absent">> ELSE choice[p]]

BundledSet ==
    {MkBundled(Absent(f)) : f \in [Pairs -> BundledChoices]}
    \cup {[kind |-> k, packages |-> <<>>] : k \in {"missing", "empty", "invalid", "nopackages"}}

\* <packagePath>/packages: the tools-only directory "builtin", then the packages
\* with a hardware directory; g gives the version directories of each pair
MkUserDir(g) ==
    [exists |-> TRUE,
     dirs |->
        <<[packageName |-> "builtin", hasHardware |-> FALSE, architectures |-> <<>>]>>
        \o [i \in DOMAIN SelectSeq(PkgOrder, LAMBDA n : ArchsIn(g, n) # <<>>) |->
            LET n == SelectSeq(PkgOrder, LAMBDA m : ArchsIn(g, m) # <<>>)[i]
            IN  [packageName |-> n, hasHardware |-> TRUE,
                 architectures |-> [k \in DOMAIN ArchsIn(g, n) |->
                                    [architecture |-> ArchsIn(g, n)[k],
                                     versions |-> g[<<n, ArchsIn(g, n)[k]>>]]]]]]

UserChoices == {<<"absent">>, <<>>, <<"1.8.0">>, <<"1.7.0", "1.8.0">>}

UserDirSet ==
    {MkUserDir(Absent(g)) : g \in [Pairs -> UserChoices]}
    \cup {[exists |-> FALSE, dirs |-> <<>>]}

(***************************************************************************)
(* updateInstalledPlatforms and changeBoardType                            *)
(***************************************************************************)
\* line 154, fs.readdirSync(archPath): the version directories of the pair in
\* the user package directory; it throws when archPath does not exist
readArchPath(userPackages, pkgName, arch) ==
    LET pkgDirs == SelectSeq(userPackages.dirs,
                             LAMBDA d : d.packageName = pkgName /\ d.hasHardware)
        archDirs == IF pkgDirs = <<>>
                    THEN <<>>
                    ELSE SelectSeq(pkgDirs[1].architectures,
                                   LAMBDA a : a.architecture = arch)
    IN  IF archDirs = <<>>
        THEN [threw |-> TRUE, allVersion |-> <<>>]
        ELSE [threw |-> FALSE, allVersion |-> archDirs[1].versions]

\* updateInstalledPlatforms that pushes the platform whatever its installedVersion
updateInstalledPlatforms_pushAlways(st, userPackages, pkgName, arch) ==
    LET allVersion == readArchPath(userPackages, pkgName, arch).allVersion
        existingPlatform ==
            FindIndex(st.platforms,
                      LAMBDA p : p.package = pkgName /\ p.architecture = arch)
    IN  IF Len(allVersion) = 0 \/ existingPlatform = 0
        THEN st
        ELSE loadInstalledBoardsFromPlatform(
                [st EXCEPT
                    !.platforms[existingPlatform].defaultPlatform = <<FALSE>>,
                    !.platforms[existingPlatform].installedVersion = allVersion[1],
                    !.platforms[existingPlatform].rootBoardPath =
                        UserPath(pkgName, arch, allVersion[1]),
                    !.installedPlatforms = Append(@, existingPlatform)],
                existingPlatform)

\* lines 151-177; a throw of line 154 leaves the manager as it was
updateInstalledPlatforms(st, userPackages, pkgName, arch) ==
    LET allVersion == readArchPath(userPackages, pkgName, arch).allVersion
        existingPlatform ==
            FindIndex(st.platforms,
                      LAMBDA p : p.package = pkgName /\ p.architecture = arch)
    IN  IF Len(allVersion) = 0 \/ existingPlatform = 0
        THEN st
        ELSE IF Falsy(st.platforms[existingPlatform].installedVersion)
        THEN loadInstalledBoardsFromPlatform(
                [st EXCEPT
                    !.platforms[existingPlatform].defaultPlatform = <<FALSE>>,
                    !.platforms[existingPlatform].installedVersion = allVersion[1],
                    !.platforms[existingPlatform].rootBoardPath =
                        UserPath(pkgName, arch, allVersion[1]),
                    !.installedPlatforms = Append(@, existingPlatform)],
                existingPlatform)
        ELSE loadInstalledBoardsFromPlatform(
                [st EXCEPT !.platforms[existingPlatform].defaultPlatform = <<FALSE>>],
                existingPlatform)

\* lines 315-321
listBoards(st) == st.boards

\* doChangeBoardType that leaves the configuration of the device context alone
doChangeBoardType_keepConfiguration(st, deviceContext, targetBoard) ==
    [bm |-> [st EXCEPT !.currentBoard = <<targetBoard>>,
                       !.configStatusShown = (deviceContext.configuration # ""),
                       !.boardStatusText = targetBoard.name],
     dc |-> [deviceContext EXCEPT !.board = targetBoard.key]]

\* lines 102-114; addLibPath(null) of line 113 writes to neither
doChangeBoardType(st, deviceContext, targetBoard) ==
    [bm |-> [st EXCEPT !.currentBoard = <<targetBoard>>,
                       !.configStatusShown = (targetBoard.customConfig # ""),
                       !.boardStatusText = targetBoard.name],
     dc |-> [board |-> targetBoard.key, configuration |-> targetBoard.customConfig]]

\* no loadPackages call stands at an await
NoLoadRunning == \A c \in Calls : lp[c].pc \in {"idle", "off", "done", "failed"}

\* what changeBoardType may write to, for the history field
Selection ==
    [currentBoard |-> bm.currentBoard, dc |-> dc,
     boardStatusText |-> bm.boardStatusText, configStatusShown |-> bm.configStatusShown]

\* a loadPackages call that starts when no other call is running
LoadStartAlone(c, update) ==
    /\ NoLoadRunning
    /\ LoadStart(c, update)

\* updateInstalledPlatforms(pkgName, arch), called when no loadPackages is running
UpdateInstalledPlatforms(pkgName, arch) ==
    /\ NoLoadRunning
    /\ bm' = [updateInstalledPlatforms(bm, userDir, pkgName, arch)
                EXCEPT !.last = [op |-> "update", pkgName |-> pkgName, arch |-> arch,
                                 allVersion |-> readArchPath(userDir, pkgName, arch).allVersion]]
    /\ UNCHANGED <<indexFiles, indexContent, present, bundled, userDir, dc, lp, picker>>
    /\ UNCHANGED <<actVars, exVars, descVars, oldVars>>

\* lines 77-96: changeBoardType up to its return of line 81 or its await of line 84;
\* the items carry the board objects of the registry at that moment (the order
\* of the items, lines 90-96, decides nothing below)
ChangeBoardType ==
    /\ ~picker.open
    /\ IF Len(listBoards(bm)) = 0
       THEN /\ bm' = [bm EXCEPT !.last = [op |-> "change", outcome |-> "noBoards",
                                          before |-> Selection]]
            /\ UNCHANGED picker
       ELSE /\ picker' = [open |-> TRUE, items |-> listBoards(bm)]
            /\ UNCHANGED bm
    /\ UNCHANGED <<indexFiles, indexContent, present, bundled, userDir, dc, lp>>
    /\ UNCHANGED <<actVars, exVars, descVars, oldVars>>

\* lines 97-99: showQuickPick resolves with item `chosen`, or with undefined
\* (chosen = 0) when the user dismisses the picker; the label of an item is the
\* name of its board
PickerSettles(chosen) ==
    /\ picker.open
    /\ chosen \in 0..Len(picker.items)
    /\ picker' = NoPicker
    /\ IF chosen = 0
       THEN /\ bm' = [bm EXCEPT !.last = [op |-> "change", outcome |-> "dismissed",
                                          before |-> Selection]]
            /\ UNCHANGED dc
       ELSE LET r == IF ~Falsy(picker.items[chosen].name)
                     THEN doChangeBoardType(bm, dc, picker.items[chosen])
                     ELSE [bm |-> bm, dc |-> dc]
            IN  /\ bm' = [r.bm EXCEPT !.last = [op |-> "change", outcome |-> "picked",
                                                 before |-> Selection,
                                                 picked |-> picker.items[chosen]]]
                /\ dc' = r.dc
    /\ UNCHANGED <<indexFiles, indexContent, present, bundled, userDir, lp>>
    /\ UNCHANGED <<actVars, exVars, descVars, oldVars>>

\* the user package directory changes: a platform is installed or removed
PackagesChange(newDir) ==
    /\ newDir # userDir
    /\ userDir' = newDir
    /\ UNCHANGED <<indexFiles, indexContent, present, bundled, dc, bm, lp, picker>>
    /\ UNCHANGED <<actVars, exVars, descVars, oldVars>>

(***************************************************************************)
(* The earlier BoardManager of src/arduino/exampleManager.ts               *)
(* loadPackages hands an async callback to indexFiles.forEach: forEach     *)
(* runs each callback up to its first await and drops the promise.         *)
(***************************************************************************)
\* cb is where the callback of each index file stands; parsed and parsedAtTail
\* are history fields: the index files parsed so far, in order, and those that
\* had been parsed when loadInstalledPlatforms ran
NewOldManager ==
    [pc |-> "idle", cb |-> <<>>, platforms |-> <<>>, installedPlatforms |-> <<>>,
     boards |-> <<>>, currentBoard |-> <<>>, boardStatusText |-> "",
     boardStatusShown |-> FALSE, parsed |-> <<>>, parsedAtTail |-> <<>>]

OldIdle == old = NewOldManager

\* one iteration of pkg.platforms.forEach, lines 482-494
parsePlatformOld(plats, pkgName, plat) ==
    LET addedPlatform ==
            FindIndex(plats, LAMBDA p : p.architecture = plat.architecture
                                        /\ p.package = pkgName)
    IN  IF addedPlatform # 0
        THEN [plats EXCEPT ![addedPlatform].versions = Append(@, plat.version)]
        ELSE Append(plats,
                    [package |-> pkgName, architecture |-> plat.architecture,
                     version |-> "", versions |-> <<plat.version>>,
                     boards |-> plat.boards,
                     installedVersion |-> Undefined, rootBoardPath |-> <<>>])

\* lines 367-368 with 478-496: index file i is read and parsed
parseIndexFileOld(st, i) ==
    [st EXCEPT
        !.platforms =
            FoldSeq(LAMBDA plats, pkg :
                        FoldSeq(LAMBDA ps, plat : parsePlatformOld(ps, pkg.name, plat),
                                plats, pkg.platforms),
                    @, indexContent[i]),
        !.parsed = Append(@, i)]

\* lines 514-522: one architecture directory of a package directory
markInstalledOld(st, packageName, archDir) ==
    LET existingPlatform ==
            FindIndex(st.platforms,
                      LAMBDA p : p.package = packageName
                                 /\ p.architecture = archDir.architecture)
    IN  IF existingPlatform # 0 /\ Len(archDir.versions) > 0
        THEN [st EXCEPT
                !.platforms[existingPlatform].installedVersion = archDir.versions[1],
                !.platforms[existingPlatform].rootBoardPath =
                    UserPath(packageName, archDir.architecture, archDir.versions[1]),
                !.installedPlatforms = Append(@, existingPlatform)]
        ELSE st

\* lines 498-524
loadInstalledPlatformsOld(st, userPackages) ==
    IF ~userPackages.exists
    THEN [st EXCEPT !.installedPlatforms = <<>>]
    ELSE FoldSeq(LAMBDA acc, pkgDir :
                    IF ~pkgDir.hasHardware
                    THEN acc
                    ELSE FoldSeq(LAMBDA s, archDir :
                                    markInstalledOld(s, pkgDir.packageName, archDir),
                                 acc, pkgDir.architectures),
                 [st EXCEPT !.installedPlatforms = <<>>], userPackages.dirs)

\* lines 526-535: readFileSync throws when a platform directory has no boards.txt;
\* the boards of a file are keyed by their id alone (line 565)
loadInstalledBoardsOld(st) ==
    IF \E k \in DOMAIN st.installedPlatforms :
            ~BoardsTxt(st.platforms[st.installedPlatforms[k]].rootBoardPath).exists
    THEN [threw |-> TRUE, st |-> st]
    ELSE [threw |-> FALSE,
          st |-> [st EXCEPT !.boards =
                    FoldSeq(LAMBDA map, platIndex :
                                FoldSeq(MapSet, map,
                                        [j \in DOMAIN BoardsTxt(st.platforms[platIndex].rootBoardPath).ids |->
                                            [key |-> BoardsTxt(st.platforms[platIndex].rootBoardPath).ids[j],
                                             name |-> BoardsTxt(st.platforms[platIndex].rootBoardPath).ids[j],
                                             platform |-> platIndex]]),
                            <<>>, st.installedPlatforms)]]

\* lines 427-436
updateStatusBarOld(st, board) ==
    IF MapHas(st.boards, board)
    THEN [st EXCEPT !.currentBoard = <<MapGet(st.boards, board)>>,
                    !.boardStatusText = MapGet(st.boards, board).name]
    ELSE [st EXCEPT !.boardStatusText = "<Select Board Type>"]

\* lines 362-369: forEach runs the callback of each index file in turn, up to
\* its first await or to its end
RECURSIVE forEachIndexFile(_, _)
forEachIndexFile(st, i) ==
    IF i > indexFiles
    THEN st
    ELSE IF i \in present
    THEN forEachIndexFile([parseIndexFileOld(st, i) EXCEPT !.cb[i] = "done"], i + 1)
    ELSE forEachIndexFile([st EXCEPT !.cb[i] = "setPref"], i + 1)

\* lines 355-362: loadPackages up to `await indexFiles.forEach(...)`, which
\* awaits the undefined that forEach returns
OldLoadStart ==
    /\ old.pc = "idle"
    /\ old' = [forEachIndexFile([old EXCEPT !.platforms = <<>>,
                                            !.cb = [i \in 1..indexFiles |-> "none"]], 1)
                EXCEPT !.pc = "awaiting"]
    /\ UNCHANGED <<bmVars, actVars, exVars, descVars>>

\* lines 371-376: the call goes on after the await of line 362; its continuation
\* was queued before a callback can come back from initialize(true)
OldLoadFinish ==
    /\ old.pc = "awaiting"
    /\ LET installed == loadInstalledPlatformsOld([old EXCEPT !.parsedAtTail = old.parsed],
                                                  userDir)
           r == loadInstalledBoardsOld(installed)
       IN  old' = IF r.threw
                  THEN [r.st EXCEPT !.pc = "failed"]
                  ELSE [updateStatusBarOld(r.st, dc.board)
                            EXCEPT !.boardStatusShown = TRUE, !.pc = "done"]
    /\ UNCHANGED <<bmVars, actVars, exVars, descVars>>

\* line 364: the setPref of the callback of file i has resolved
OldSetPrefDone(i) ==
    /\ i \in DOMAIN old.cb
    /\ old.cb[i] = "setPref"
    /\ old' = [old EXCEPT !.cb[i] = "init"]
    /\ UNCHANGED <<bmVars, actVars, exVars, descVars>>

\* lines 365-368: initialize(true) of the callback of file i has resolved, having
\* fetched the index files it could; the file is read and parsed, or the read throws
OldInitDone(i, fetched) ==
    /\ i \in DOMAIN old.cb
    /\ old.cb[i] = "init"
    /\ old.pc # "awaiting"
    /\ present' = present \cup fetched
    /\ old' = IF i \in present \cup fetched
              THEN [parseIndexFileOld(old, i) EXCEPT !.cb[i] = "done"]
              ELSE [old EXCEPT !.cb[i] = "threw"]
    /\ UNCHANGED <<indexFiles, indexContent, bundled, userDir, dc, bm, lp, picker>>
    /\ UNCHANGED <<actVars, exVars, descVars>>

\* setPref or initialize(true) rejects: the promise of the callback rejects, unseen
OldAwaitFails(i) ==
    /\ i \in DOMAIN old.cb
    /\ old.cb[i] \in {"setPref", "init"}
    /\ old' = [old EXCEPT !.cb[i] = "threw"]
    /\ UNCHANGED <<bmVars, actVars, exVars, descVars>>

(***************************************************************************)
(* ArduinoActivator.activate and the local web bridge                      *)
(* Here loadPackages is a call that is started and later resolves or       *)
(* rejects; what it computes is the BoardManager part above.               *)
(***************************************************************************)
Callers == {"a1", "a2"}
Requests == {"r1", "r2"}

\* the handlers that ArduinoContentProvider.initialize registers (lines 33-55)
Handlers ==
    {"getHtmlView", "getBoardPackages", "installPackage", "uninstallPackage", "openLink",
     "openSettings", "getLibraries", "installLibrary", "uninstallLibrary", "addLibPath",
     "getBoardConfig", "updateConfig", "getExamples", "openExample"}

\* handlers that test required body parameters first (lines 119, 134, 149, 179, 194, 209, 231, 253)
NeedsParams(h) ==
    h \in {"installPackage", "uninstallPackage", "openLink", "installLibrary",
           "uninstallLibrary", "addLibPath", "updateConfig", "openExample"}

\* handlers that await an operation inside try/catch (lines 122-129 and alike)
AwaitsInTry(h) ==
    h \in {"installPackage", "uninstallPackage", "openLink", "installLibrary",
           "uninstallLibrary", "addLibPath"}

\* handlers that await a manager call outside any try/catch (lines 112, 172, 246)
AwaitsUnguarded(h) == h \in {"getBoardPackages", "getLibraries", "getExamples"}

\* getBoardPackages with the loadPackages call of line 112 left out
callsLoadPackages_never(h) == FALSE

\* line 112: the handler that runs boardManager.loadPackages
callsLoadPackages(h) == h = "getBoardPackages"

\* the body parameters a handler tests (lines 119, 134, 149, 179, 194, 209, 231, 253)
BodyParams(h) ==
    CASE h = "installPackage" -> {"packageName", "arch"}
      [] h = "uninstallPackage" -> {"packagePath"}
      [] h = "openLink" -> {"link"}
      [] h = "installLibrary" -> {"libraryName"}
      [] h \in {"uninstallLibrary", "addLibPath"} -> {"libraryPath"}
      [] h = "updateConfig" -> {"configId", "optionId"}
      [] h = "openExample" -> {"examplePath"}
      [] OTHER -> {}

\* installPackage and updateConfig with && in place of || in the test of lines 119, 231
missingParameter_all(h, body) == BodyParams(h) \cap body = {}

\* the tests of the form !req.body.a || !req.body.b
missingParameter(h, body) == \E x \in BodyParams(h) : x \notin body

\* handlers registered with post = true (lines 35-55)
IsPost(h) ==
    h \in {"installPackage", "uninstallPackage", "openLink", "openSettings", "installLibrary",
           "uninstallLibrary", "addLibPath", "updateConfig", "openExample"}

\* op: the operation behind the handler: "none" while not invoked, "pending",
\* "pending2" (the second await of addLibPath), "done" or "threw"
NoRequest ==
    [handler |-> "none", pc |-> "none", body |-> {}, responses |-> 0,
     status |-> 0, threw |-> FALSE, loaded |-> FALSE, op |-> "none", log |-> <<>>]

\* a call of the Logger by the wrapper of request r: the request stands for the
\* guid of line 269, which is new for every request
Traced(ev, h, r) == [ev |-> ev, handlerName |-> h, correlationId |-> r]

\* activate() with the test of line 16 left out
mustInitialize_always(promise) == TRUE

\* line 16: the initialization body runs when no promise is stored yet
mustInitialize(promise) == promise = "unset"

\* lines 15-23: a call of activate up to its first await
Activate(c) ==
    /\ activateCalls[c].pc = "idle"
    /\ IF mustInitialize(initializePromise)
       THEN /\ initializePromise' = "pending"
            /\ initStarted' = initStarted + 1
            /\ initPc' = "settings"
            /\ activateCalls' = [activateCalls EXCEPT ![c] = [pc |-> "awaiting", joined |-> "started"]]
       ELSE /\ activateCalls' = [activateCalls EXCEPT
                                    ![c] = [pc |-> "awaiting", joined |-> initializePromise]]
            /\ UNCHANGED <<initializePromise, initStarted, initPc>>
    /\ UNCHANGED <<ctx, loadCalls, currentBoardSet, req>>
    /\ UNCHANGED <<bmVars, exVars, descVars, oldVars>>

\* lines 23-29: arduinoSettings.initialize(), arduinoApp.initialize() and
\* deviceContext.loadContext() resolve one after the other
InitStep ==
    /\ initPc \in {"settings", "app"}
    /\ initPc' = IF initPc = "settings" THEN "app" ELSE "context"
    /\ UNCHANGED <<initializePromise, initStarted, activateCalls, ctx, loadCalls,
                   currentBoardSet, req>>
    /\ UNCHANGED <<bmVars, exVars, descVars, oldVars>>

\* lines 29-33: loadContext has resolved; the board manager is created and
\* published, loadPackages() is called and awaited
InitLoad ==
    /\ initPc = "context"
    /\ initPc' = "load"
    /\ ctx' = [ctx EXCEPT !.boardManager = TRUE]
    /\ loadCalls' = [loadCalls EXCEPT !.activation = @ + 1]
    /\ UNCHANGED <<initializePromise, initStarted, activateCalls, currentBoardSet, req>>
    /\ UNCHANGED <<bmVars, exVars, descVars, oldVars>>

\* lines 33-37: loadPackages has resolved (updateStatusBar may have found the
\* board of the device context); the managers are attached, arduinoApp is
\* published and the promise resolves
InitFinish(found) ==
    /\ initPc = "load"
    /\ initPc' = "done"
    /\ currentBoardSet' = (currentBoardSet \/ found)
    /\ ctx' = [ctx EXCEPT !.libraryManager = TRUE, !.exampleManager = TRUE,
                          !.arduinoApp = TRUE]
    /\ initializePromise' = "resolved"
    /\ UNCHANGED <<initStarted, activateCalls, loadCalls, req>>
    /\ UNCHANGED <<bmVars, exVars, descVars, oldVars>>

\* an awaited step of the body rejects: the body throws, the promise is rejected
InitFails ==
    /\ initPc \in {"settings", "app", "context", "load"}
    /\ initPc' = "failed"
    /\ initializePromise' = "rejected"
    /\ UNCHANGED <<initStarted, activateCalls, ctx, loadCalls, currentBoardSet, req>>
    /\ UNCHANGED <<bmVars, exVars, descVars, oldVars>>

\* ActivateSettles that returns also when the promise is rejected
ActivateSettles_swallow(c) ==
    /\ activateCalls[c].pc = "awaiting"
    /\ initializePromise \in {"resolved", "rejected"}
    /\ activateCalls' = [activateCalls EXCEPT ![c].pc = "returned"]
    /\ UNCHANGED <<initializePromise, initPc, initStarted, ctx, loadCalls, currentBoardSet, req>>
    /\ UNCHANGED <<bmVars, exVars, descVars, oldVars>>

\* lines 17-18 and 38: the await of the promise ends; activate returns or throws
ActivateSettles(c) ==
    /\ activateCalls[c].pc = "awaiting"
    /\ initializePromise \in {"resolved", "rejected"}
    /\ activateCalls' = [activateCalls EXCEPT
                            ![c].pc = IF initializePromise = "resolved" THEN "returned" ELSE "threw"]
    /\ UNCHANGED <<initializePromise, initPc, initStarted, ctx, loadCalls, currentBoardSet, req>>
    /\ UNCHANGED <<bmVars, exVars, descVars, oldVars>>

\* the wrapped handler of lines 268-277 up to the first await of the handler:
\* a request arrives once the content provider has its arduinoApp.
\* body: the body parameters the request carries; ok: a synchronous
\* operation does not throw
BridgeArrive(r, h, body, ok) ==
    /\ req[r].pc = "none"
    /\ ctx.arduinoApp
    /\ LET new == [NoRequest EXCEPT !.handler = h, !.body = body,
                                    !.log = <<Traced("start", h, r)>>]
           respond(rec, status) ==
                [rec EXCEPT !.pc = "settled", !.responses = 1, !.status = status]
           called == [new EXCEPT !.op = "pending"]
           ran(fine) == [new EXCEPT !.op = IF fine THEN "done" ELSE "threw"]
       IN  req' = [req EXCEPT ![r] =
                CASE h = "getHtmlView" -> respond(new, 200)
                  [] h = "openSettings" -> respond(called, 200)
                  [] NeedsParams(h) /\ missingParameter(h, body) -> respond(new, 400)
                  [] AwaitsInTry(h) -> [called EXCEPT !.pc = "waiting"]
                  [] AwaitsUnguarded(h) ->
                        [called EXCEPT !.pc = "waiting", !.loaded = callsLoadPackages(h)]
                  [] h = "updateConfig" ->
                        respond(ran(currentBoardSet /\ ok),
                                IF currentBoardSet /\ ok THEN 200 ELSE 500)
                  [] h = "openExample" -> respond(ran(ok), IF ok THEN 200 ELSE 500)
                  [] h = "getBoardConfig" ->
                        IF currentBoardSet THEN respond(new, 200)
                        ELSE [new EXCEPT !.pc = "settled", !.threw = TRUE]]
    /\ loadCalls' = IF AwaitsUnguarded(h) /\ callsLoadPackages(h)
                    THEN [loadCalls EXCEPT !.bridge = @ + 1] ELSE loadCalls
    /\ UNCHANGED <<initializePromise, initPc, initStarted, activateCalls, ctx, currentBoardSet>>
    /\ UNCHANGED <<bmVars, exVars, descVars, oldVars>>

\* the operation a handler awaits resolves (ok) or rejects; addLibPath awaits
\* includeLibrary after addLibPath (lines 213-214)
BridgeOperationSettles(r, ok, found) ==
    /\ req[r].pc = "waiting"
    /\ req' = [req EXCEPT ![r] =
            IF req[r].handler = "addLibPath" /\ req[r].op = "pending" /\ ok
            THEN [@ EXCEPT !.op = "pending2"]
            ELSE IF AwaitsInTry(req[r].handler)
            THEN [@ EXCEPT !.pc = "settled", !.responses = 1,
                           !.status = IF ok THEN 200 ELSE 500,
                           !.op = IF ok THEN "done" ELSE "threw"]
            ELSE IF ok
            THEN [@ EXCEPT !.pc = "settled", !.responses = 1, !.status = 200, !.op = "done"]
            ELSE [@ EXCEPT !.pc = "settled", !.threw = TRUE, !.op = "threw"]]
    /\ currentBoardSet' =
            (currentBoardSet \/ (req[r].loaded /\ ok /\ found))
    /\ UNCHANGED <<initializePromise, initPc, initStarted, activateCalls, ctx, loadCalls>>
    /\ UNCHANGED <<bmVars, exVars, descVars, oldVars>>

\* line 164: the command that openSettings started and did not await resolves or rejects
CommandSettles(r, ok) ==
    /\ req[r].handler = "openSettings"
    /\ req[r].op = "pending"
    /\ req' = [req EXCEPT ![r].op = IF ok THEN "done" ELSE "threw"]
    /\ UNCHANGED <<initializePromise, initPc, initStarted, activateCalls, ctx, loadCalls,
                   currentBoardSet>>
    /\ UNCHANGED <<bmVars, exVars, descVars, oldVars>>

\* BridgeEnd without the catch of lines 278-280: nothing is traced after a throw
BridgeEnd_noCatch(r) ==
    /\ req[r].pc = "settled"
    /\ req' = [req EXCEPT ![r].pc = "ended",
                          ![r].log = IF req[r].threw THEN @
                                     ELSE Append(@, Traced("end", req[r].handler, r))]
    /\ UNCHANGED <<initializePromise, initPc, initStarted, activateCalls, ctx, loadCalls,
                   currentBoardSet>>
    /\ UNCHANGED <<bmVars, exVars, descVars, oldVars>>

\* lines 277-281: the await of the handler ends, a thrown error is traced, end is traced
BridgeEnd(r) ==
    /\ req[r].pc = "settled"
    /\ req' = [req EXCEPT ![r].pc = "ended",
                          ![r].log =
                            (IF req[r].threw
                             THEN Append(@, Traced("expressHandlerError", req[r].handler, r))
                             ELSE @)
                            \o <<Traced("end", req[r].handler, r)>>]
    /\ UNCHANGED <<initializePromise, initPc, initStarted, activateCalls, ctx, loadCalls,
                   currentBoardSet>>
    /\ UNCHANGED <<bmVars, exVars, descVars, oldVars>>

ActNext ==
    \/ \E c \in Callers : Activate(c)
    \/ InitStep
    \/ InitLoad
    \/ \E found \in BOOLEAN : InitFinish(found)
    \/ InitFails
    \/ \E c \in Callers : ActivateSettles(c)
    \/ \E r \in Requests, h \in Handlers, ok \in BOOLEAN :
            \E body \in SUBSET BodyParams(h) : BridgeArrive(r, h, body, ok)
    \/ \E r \in Requests, ok \in BOOLEAN, found \in BOOLEAN : BridgeOperationSettles(r, ok, found)
    \/ \E r \in Requests, ok \in BOOLEAN : CommandSettles(r, ok)
    \/ \E r \in Requests : BridgeEnd(r)

\* nothing activated, no request
ActIdle ==
    /\ initializePromise = "unset"
    /\ initPc = "none"
    /\ initStarted = 0
    /\ activateCalls = [c \in Callers |-> [pc |-> "idle", joined |-> "none"]]
    /\ ctx = [boardManager |-> FALSE, libraryManager |-> FALSE, exampleManager |-> FALSE,
              arduinoApp |-> FALSE]
    /\ loadCalls = [activation |-> 0, bridge |-> 0]
    /\ currentBoardSet = FALSE
    /\ req = [r \in Requests |-> NoRequest]

\* the BoardManager part at rest
BmIdle ==
    /\ indexFiles = 1
    /\ indexContent = <<>>
    /\ present = {}
    /\ bundled = [kind |-> "missing", packages |-> <<>>]
    /\ userDir = [exists |-> FALSE, dirs |-> <<>>]
    /\ dc = [board |-> <<>>, configuration |-> ""]
    /\ bm = NewBoardManager
    /\ lp = [c \in Calls |-> OffCall]
    /\ picker = NoPicker

InitAct == ActIdle /\ BmIdle /\ ExIdle /\ DescIdle /\ OldIdle

SpecAct == InitAct /\ [][ActNext]_vars

(***************************************************************************)
(* Specifications of the BoardManager                                      *)
(***************************************************************************)
BmNext ==
    \/ \E c \in Calls, update \in BOOLEAN : LoadStart(c, update)
    \/ \E c \in Calls : LoadSetPrefDone(c)
    \/ \E c \in Calls, fetched \in SUBSET (1..indexFiles) : LoadInitDone(c, fetched)
    \/ \E c \in Calls : LoadAwaitFails(c)

\* any index files, one loadPackages call, a fixed installation
InitIndex ==
    /\ indexFiles \in 1..MaxIndexFiles
    /\ indexContent \in [1..indexFiles -> FileSet]
    /\ present \in {1..indexFiles} \cup {(1..indexFiles) \ {i} : i \in 1..indexFiles}
    /\ bundled = MkBundled([p \in Pairs |->
                    IF p = <<"arduino", "avr">> THEN <<"1.6.0">> ELSE <<"absent">>])
    /\ userDir = MkUserDir([p \in Pairs |->
                    IF p = <<"esp", "avr">> THEN <<"1.8.0">> ELSE <<"absent">>])
    /\ dc = [board |-> <<"arduino", "avr", "uno">>, configuration |-> ""]
    /\ bm = NewBoardManager
    /\ lp = [c \in Calls |-> IF c = "c1" THEN IdleCall ELSE OffCall]
    /\ picker = NoPicker
    /\ ActIdle
    /\ ExIdle
    /\ DescIdle
    /\ OldIdle

SpecIndex == InitIndex /\ [][BmNext]_vars

\* any installation directory and user directory, one index file, one call
InitInstalled ==
    /\ indexFiles = 1
    /\ indexContent = [i \in {1} |->
            <<[name |-> "arduino",
               platforms |-> <<[architecture |-> "avr", version |-> "1.0", boards |-> <<"Uno">>],
                               [architecture |-> "sam", version |-> "1.0", boards |-> <<"Due">>]>>],
              [name |-> "esp",
               platforms |-> <<[architecture |-> "avr", version |-> "2.0", boards |-> <<"Uno">>]>>]>>]
    /\ present \in {{1}, {}}
    /\ bundled \in BundledSet
    /\ userDir \in UserDirSet
    /\ dc = [board |-> <<"arduino", "avr", "uno">>, configuration |-> ""]
    /\ bm = NewBoardManager
    /\ lp = [c \in Calls |-> IF c = "c1" THEN IdleCall ELSE OffCall]
    /\ picker = NoPicker
    /\ ActIdle
    /\ ExIdle
    /\ DescIdle
    /\ OldIdle

SpecInstalled == InitInstalled /\ [][BmNext]_vars

\* the content of index file i when every file has its own packages
FixedIndex(i) ==
    IF i = 1
    THEN <<[name |-> "arduino",
            platforms |-> <<[architecture |-> "avr", version |-> "1.0", boards |-> <<"Uno">>],
                            [architecture |-> "avr", version |-> "2.0",
                             boards |-> <<"Uno", "Due">>]>>]>>
    ELSE IF i = 2
    THEN <<[name |-> "esp",
            platforms |-> <<[architecture |-> "avr", version |-> "1.0", boards |-> <<"Uno">>]>>]>>
    ELSE <<[name |-> "arduino",
            platforms |-> <<[architecture |-> "sam", version |-> "1.0", boards |-> <<"Due">>]>>]>>

\* two loadPackages calls that may overlap at their awaits; any of the index
\* files may be missing
InitOverlap ==
    /\ indexFiles \in 1..MaxIndexFiles
    /\ indexContent = [i \in 1..indexFiles |-> FixedIndex(i)]
    /\ present \in SUBSET (1..indexFiles)
    /\ bundled = MkBundled([p \in Pairs |->
                    IF p = <<"arduino", "avr">> THEN <<"1.6.0">> ELSE <<"absent">>])
    /\ userDir = MkUserDir([p \in Pairs |->
                    IF p = <<"esp", "avr">> THEN <<"1.8.0">> ELSE <<"absent">>])
    /\ dc = [board |-> <<"arduino", "avr", "uno">>, configuration |-> ""]
    /\ bm = NewBoardManager
    /\ lp = [c \in Calls |-> IdleCall]
    /\ picker = NoPicker
    /\ ActIdle
    /\ ExIdle
    /\ DescIdle
    /\ OldIdle

SpecOverlap == InitOverlap /\ [][BmNext]_vars

\* the index file of a session: two platforms of arduino, none of esp
SessionIndex ==
    <<[name |-> "arduino",
       platforms |-> <<[architecture |-> "avr", version |-> "1.0", boards |-> <<"Uno">>],
                       [architecture |-> "sam", version |-> "1.0", boards |-> <<"Due">>]>>]>>

\* the user package directories of a session: esp:avr is installed throughout,
\* arduino:avr and arduino:sam come and go
SessionDirs ==
    {MkUserDir([p \in Pairs |->
                    IF p = <<"esp", "avr">> THEN <<"1.8.0">>
                    ELSE IF p = <<"arduino", "avr">> THEN avr
                    ELSE IF p = <<"arduino", "sam">> THEN sam
                    ELSE <<"absent">>]) :
        avr \in {<<"absent">>, <<"1.8.0">>}, sam \in {<<"absent">>, <<"1.8.0">>}}

SessionPairs == {<<"arduino", "avr">>, <<"arduino", "sam">>, <<"esp", "avr">>}

\* a session: loadPackages calls one after the other, updateInstalledPlatforms
\* and changeBoardType between them, while platforms are installed and removed
SessionNext ==
    \/ \E c \in Calls, update \in BOOLEAN : LoadStartAlone(c, update)
    \/ \E c \in Calls : LoadSetPrefDone(c)
    \/ \E c \in Calls, fetched \in SUBSET (1..indexFiles) : LoadInitDone(c, fetched)
    \/ \E c \in Calls : LoadAwaitFails(c)
    \/ \E p \in SessionPairs : UpdateInstalledPlatforms(p[1], p[2])
    \/ ChangeBoardType
    \/ \E chosen \in 0..Len(picker.items) : PickerSettles(chosen)
    \/ \E newDir \in SessionDirs : PackagesChange(newDir)

InitSession ==
    /\ indexFiles = 1
    /\ indexContent = [i \in {1} |-> SessionIndex]
    /\ present = {1}
    /\ bundled = MkBundled([p \in Pairs |->
                    IF p = <<"arduino", "avr">> THEN <<"1.6.0">> ELSE <<"absent">>])
    /\ userDir \in SessionDirs
    /\ dc \in {[board |-> b, configuration |-> ""] : b \in {<<>>, <<"arduino", "avr", "uno">>}}
    /\ bm = NewBoardManager
    /\ lp = [c \in Calls |-> IdleCall]
    /\ picker = NoPicker
    /\ ActIdle
    /\ ExIdle
    /\ DescIdle
    /\ OldIdle

SpecSession == InitSession /\ [][SessionNext]_vars

OldNext ==
    \/ OldLoadStart
    \/ OldLoadFinish
    \/ \E i \in 1..indexFiles : OldSetPrefDone(i)
    \/ \E i \in 1..indexFiles, fetched \in SUBSET (1..indexFiles) : OldInitDone(i, fetched)
    \/ \E i \in 1..indexFiles : OldAwaitFails(i)

\* the earlier loadPackages, once, with any of the index files missing
InitOld ==
    /\ indexFiles \in 1..MaxIndexFiles
    /\ indexContent = [i \in 1..indexFiles |-> FixedIndex(i)]
    /\ present \in SUBSET (1..indexFiles)
    /\ bundled = [kind |-> "missing", packages |-> <<>>]
    /\ userDir \in {MkUserDir([p \in Pairs |->
                        IF p \in {<<"arduino", "avr">>, <<"esp", "avr">>} THEN v
                        ELSE <<"absent">>]) : v \in {<<"1.8.0">>, <<"1.7.0", "1.8.0">>}}
    /\ dc \in {[board |-> b, configuration |-> ""] : b \in {"uno", "nano"}}
    /\ bm = NewBoardManager
    /\ lp = [c \in Calls |-> OffCall]
    /\ picker = NoPicker
    /\ old = NewOldManager
    /\ ActIdle
    /\ ExIdle
    /\ DescIdle

SpecOld == InitOld /\ [][OldNext]_vars

(***************************************************************************)
(* Strings are sequences of one-character strings, so that endsWith,       *)
(* indexOf, split, trim and the regular expressions are computed           *)
(***************************************************************************)
endsWith(s, suffix) ==
    /\ Len(s) >= Len(suffix)
    /\ SubSeq(s, Len(s) - Len(suffix) + 1, Len(s)) = suffix

startsWith(s, prefix) ==
    /\ Len(s) >= Len(prefix)
    /\ SubSeq(s, 1, Len(prefix)) = prefix

\* String.prototype.indexOf with a string argument: the 0-based position of the
\* first occurrence of needle as a substring, -1 if there is none
indexOf(hay, needle) ==
    LET at == {i \in 1..(Len(hay) - Len(needle) + 1) :
                    SubSeq(hay, i, i + Len(needle) - 1) = needle}
    IN  IF at = {} THEN -1
        ELSE (CHOOSE i \in at : \A j \in at : i <= j) - 1

\* String.prototype.split with a character class: every character of seps ends a piece
RECURSIVE split(_, _)
split(s, seps) ==
    LET at == {i \in DOMAIN s : s[i] \in seps}
    IN  IF at = {} THEN <<s>>
        ELSE LET i == CHOOSE x \in at : \A y \in at : x <= y
             IN  <<SubSeq(s, 1, i - 1)>> \o split(SubSeq(s, i + 1, Len(s)), seps)

Whitespace == {" ", "\t", "\n", "\r"}

\* String.prototype.trim
trim(s) ==
    LET ink == {i \in DOMAIN s : s[i] \notin Whitespace}
    IN  IF ink = {} THEN <<>>
        ELSE SubSeq(s, CHOOSE i \in ink : \A j \in ink : i <= j,
                       CHOOSE i \in ink : \A j \in ink : i >= j)

(***************************************************************************)
(* ExampleManager.parseExamples, exampleManager.ts lines 61-99 and 137-143 *)
(***************************************************************************)
MaxDirs == 3

DotIno == <<".", "i", "n", "o">>
\* the directory names, in the order in which glob lists siblings
DirNames == << <<"a">>, <<"b", ".", "i", "n", "o">> >>
FileNames == { <<"s", ".", "i", "n", "o">>, <<"i", "n", "o">> }

dirname(p) == SubSeq(p, 1, Len(p) - 1)
basename(p) == p[Len(p)]

directoryExistsSync(dirs, p) == p \in dirs
fileExistsSync(files, p) == p \in files
readdirSync(dirs, files, p) ==
    {basename(q) : q \in {x \in dirs \cup files : Len(x) = Len(p) + 1 /\ dirname(x) = p}}

\* glob.sync(rootPath/**/**/): the directories at and below p, each directory
\* before the directories it contains
RECURSIVE globSync(_, _)
globSync(dirs, p) ==
    <<p>> \o FoldSeq(LAMBDA acc, n : IF Append(p, n) \in dirs
                                       THEN acc \o globSync(dirs, Append(p, n))
                                       ELSE acc,
                     <<>>, DirNames)

isExampleFolder_anyItem(dirs, files, dir) ==
    \E item \in readdirSync(dirs, files, dir) : endsWith(item, DotIno)

\* lines 137-143
isExampleFolder(dirs, files, dir) ==
    \E item \in readdirSync(dirs, files, dir) :
        fileExistsSync(files, Append(dir, item)) /\ endsWith(item, DotIno)

\* lines 82-96; exampleMap is a Map from path to node, a node's children are
\* the paths of the nodes pushed to it; isLeaf is <<>> while undefined
RECURSIVE exampleLoop(_, _, _, _, _)
exampleLoop(exampleFolders, i, exampleMap, dirs, files) ==
    IF i > Len(exampleFolders) THEN exampleMap
    ELSE
        LET currentPath == exampleFolders[i]
            parentPath == dirname(exampleFolders[i])
        IN  IF MapHas(exampleMap, parentPath)
               /\ MapGet(exampleMap, parentPath).node.isLeaf # <<TRUE>>
            THEN
                LET parentExample == MapGet(exampleMap, parentPath).node
                    currentExample == [name |-> basename(exampleFolders[i]),
                                       path |-> currentPath,
                                       isLeaf |-> <<isExampleFolder(dirs, files, currentPath)>>,
                                       children |-> <<>>]
                    added == MapSet(exampleMap, [key |-> currentPath, node |-> currentExample])
                    pushed == MapSet(added,
                        [key |-> parentPath,
                         node |-> [parentExample EXCEPT !.children = Append(@, currentPath)]])
                IN  exampleLoop(exampleFolders, i + 1, pushed, dirs, files)
            ELSE exampleLoop(exampleFolders, i + 1, exampleMap, dirs, files)

\* lines 61-99
parseExamples(dirs, files) ==
    IF ~directoryExistsSync(dirs, <<>>)
    THEN [children |-> <<>>, exampleMap |-> <<>>]
    ELSE
        LET exampleFolders == globSync(dirs, <<>>)
            rootNode == [isLeaf |-> <<>>, children |-> <<>>]
            exampleMap == exampleLoop(exampleFolders, 2,
                              <<[key |-> exampleFolders[1], node |-> rootNode]>>, dirs, files)
        IN  [children |-> MapGet(exampleMap, exampleFolders[1]).node.children,
             exampleMap |-> exampleMap]

\* the directory is filled, then parsed
Mkdir(p, n) ==
    /\ exPc = "fs"
    /\ p \in exDirs
    /\ Append(p, n) \notin exDirs
    /\ Cardinality(exDirs) <= MaxDirs
    /\ exDirs' = exDirs \cup {Append(p, n)}
    /\ UNCHANGED <<exFiles, exPc, exTree, probe, le>>
    /\ UNCHANGED <<bmVars, actVars, descVars, oldVars>>

Touch(p, f) ==
    /\ exPc = "fs"
    /\ p \in exDirs
    /\ Append(p, f) \notin exFiles
    /\ exFiles' = exFiles \cup {Append(p, f)}
    /\ UNCHANGED <<exDirs, exPc, exTree, probe, le>>
    /\ UNCHANGED <<bmVars, actVars, descVars, oldVars>>

ParseExamples ==
    /\ exPc = "fs"
    /\ exTree' = parseExamples(exDirs, exFiles)
    /\ exPc' = "parsed"
    /\ UNCHANGED <<exDirs, exFiles, probe, le>>
    /\ UNCHANGED <<bmVars, actVars, descVars, oldVars>>

TreeNext ==
    \/ \E p \in exDirs, n \in Range(DirNames) : Mkdir(p, n)
    \/ \E p \in exDirs, f \in FileNames : Touch(p, f)
    \/ ParseExamples

InitTree ==
    /\ exDirs \in {{}, {<<>>}}
    /\ exFiles = {}
    /\ exPc = "fs"
    /\ exTree = [children |-> <<>>, exampleMap |-> <<>>]
    /\ probe = [called |-> FALSE]
    /\ le = [pc |-> "off"]
    /\ BmIdle
    /\ ActIdle
    /\ DescIdle
    /\ OldIdle

SpecTree == InitTree /\ [][TreeNext]_vars

(***************************************************************************)
(* ExampleManager.isSupported, exampleManager.ts lines 145-156              *)
(***************************************************************************)
Avr == <<"a", "v", "r">>
MegaAvr == <<"m", "e", "g", "a", "a", "v", "r">>
Sam == <<"s", "a", "m">>
Samd == <<"s", "a", "m", "d">>
Esp == <<"e", "s", "p">>
Star == <<"*">>
Comma == <<",">>

\* the architectures a library.properties names, and the value of its
\* architectures property: the names joined by commas
ArchEntries == {Avr, MegaAvr, Sam, Samd, Star}
ArchTexts ==
    {<<>>} \cup ArchEntries \cup {x[1] \o Comma \o x[2] : x \in ArchEntries \X ArchEntries}

\* properties.architectures: undefined when the file has no such property
ArchValues ==
    {[declared |-> FALSE, text |-> <<>>]} \cup {[declared |-> TRUE, text |-> t] : t \in ArchTexts}

\* boardManager.currentBoard: <<>> while no board is selected
BoardChoices == {<<>>} \cup {<<[platform |-> [architecture |-> a]]>> : a \in {Avr, Sam, Esp}}

\* lines 145-156; undefined and the empty string are falsy
isSupported(architectures, currentBoard) ==
    IF ~architectures.declared \/ architectures.text = <<>> THEN FALSE
    ELSE IF currentBoard = <<>> THEN TRUE
    ELSE
        LET targetArch == currentBoard[1].platform.architecture
        IN  \/ indexOf(architectures.text, targetArch) >= 0
            \/ indexOf(architectures.text, Star) >= 0

IsSupported(architectures, currentBoard) ==
    /\ probe' = [called |-> TRUE, architectures |-> architectures,
                 currentBoard |-> currentBoard,
                 result |-> isSupported(architectures, currentBoard)]
    /\ UNCHANGED <<exDirs, exFiles, exPc, exTree, le>>
    /\ UNCHANGED <<bmVars, actVars, descVars, oldVars>>

ArchNext == \E a \in ArchValues, b \in BoardChoices : IsSupported(a, b)

InitArch == ExIdle /\ BmIdle /\ ActIdle /\ DescIdle /\ OldIdle

SpecArch == InitArch /\ [][ArchNext]_vars

(***************************************************************************)
(* ExampleManager.loadExamples and parseExamplesFromLibrary,                *)
(* exampleManager.ts lines 26-59 and 101-135                                *)
(***************************************************************************)
\* the examples directory of a library: missing, empty, or with one example
ExampleDirs(tree) ==
    IF tree = "none" THEN [dirs |-> {}, files |-> {}]
    ELSE IF tree = "empty" THEN [dirs |-> {<<>>}, files |-> {}]
    ELSE [dirs |-> {<<>>, <<DirNames[1]>>},
          files |-> {<<DirNames[1], <<"s", ".", "i", "n", "o">> >>}]

\* a library folder: whether it has a library.properties file, the
\* architectures property of that file, and its examples directory
LibraryFolders ==
    {[hasProperties |-> FALSE, architectures |-> [declared |-> FALSE, text |-> <<>>],
      tree |-> "one"]}
    \cup {[hasProperties |-> TRUE, architectures |-> a, tree |-> t] :
            a \in {[declared |-> FALSE, text |-> <<>>], [declared |-> TRUE, text |-> Avr],
                   [declared |-> TRUE, text |-> MegaAvr]},
            t \in {"none", "empty", "one"}}

\* what util.readdirSync(rootPath, true) lists: up to two library folders
LibraryRoots ==
    {<<>>} \cup {<<[name |-> "L1", folder |-> f]>> : f \in LibraryFolders}
    \cup {<<[name |-> "L1", folder |-> f[1]], [name |-> "L2", folder |-> f[2]]>> :
            f \in LibraryFolders \X LibraryFolders}

\* boardManager.currentBoard: no board, or a board of an avr or a sam platform
ExampleBoards ==
    {<<>>} \cup {<<[name |-> n[1], platform |-> [architecture |-> n[2]]]>> :
                    n \in {<<"uno", Avr>>, <<"due", Sam>>}}

\* call is the parseExamplesFromLibrary call that is running (1: line 39,
\* 2: line 48, 3: line 56) and idx the library it stands at; examples is the
\* local of loadExamples, libExamples and inCompatibles are the locals of the
\* running call, groupName is the name of the group the call is for.
\* checks and boardAtLine43 are history fields: the board that was current at
\* the isSupported call for each library, and at the test of line 43
NoLoadExamples ==
    [pc |-> "idle", roots |-> <<>>, currentBoard |-> <<>>, call |-> 0, idx |-> 0,
     examples |-> <<>>, libExamples |-> <<>>, inCompatibles |-> <<>>,
     groupName |-> [text |-> "", board |-> ""], checks |-> <<>>, boardAtLine43 |-> <<>>]

\* the second argument of every call: needParsingIncompatible is true everywhere
needParsingIncompatible_always(call) ==
    TRUE

\* lines 39, 48, 56: only the call for the custom libraries passes true
needParsingIncompatible(call) ==
    call = 3

\* lines 105-107: the loop goes on to the next library that has a
\* library.properties file, where it awaits parseProperties, or to its end
RECURSIVE nextLibrary(_)
nextLibrary(st) ==
    IF st.idx > Len(st.roots[st.call])
    THEN [st EXCEPT !.pc = "returning"]
    ELSE IF st.roots[st.call][st.idx].folder.hasProperties
    THEN [st EXCEPT !.pc = "props"]
    ELSE nextLibrary([st EXCEPT !.idx = @ + 1])

\* lines 102-104: a call of parseExamplesFromLibrary begins
startCall(st, call, groupName) ==
    nextLibrary([st EXCEPT !.call = call, !.idx = 1, !.libExamples = <<>>,
                           !.inCompatibles = <<>>, !.groupName = groupName])

\* lines 109-124: the library at idx, once its properties are parsed
addLibrary(st) ==
    LET library == st.roots[st.call][st.idx]
        fs == ExampleDirs(library.folder.tree)
        children == parseExamples(fs.dirs, fs.files).children
        node == [name |-> library.name, children |-> children]
        checked == [st EXCEPT !.checks = Append(@, [call |-> st.call, idx |-> st.idx,
                                                    currentBoard |-> st.currentBoard])]
    IN  IF Len(children) = 0
        THEN st
        ELSE IF isSupported(library.folder.architectures, st.currentBoard)
        THEN [checked EXCEPT !.libExamples = Append(@, node)]
        ELSE IF needParsingIncompatible(st.call)
        THEN [checked EXCEPT !.inCompatibles = Append(@, node)]
        ELSE checked

\* lines 127-134: what the call returns
returned(st) ==
    IF needParsingIncompatible(st.call) /\ Len(st.inCompatibles) > 0
    THEN Append(st.libExamples, [name |-> "INCOMPATIBLE", children |-> st.inCompatibles])
    ELSE st.libExamples

\* lines 26-39: loadExamples up to the first await
LoadExamples ==
    /\ le.pc = "idle"
    /\ le' = startCall(
                [le EXCEPT !.examples =
                    <<[name |-> [text |-> "Built-in Examples", board |-> ""],
                       children |-> parseExamples(ExampleDirs("one").dirs,
                                                  ExampleDirs("one").files).children]>>],
                1, [text |-> "Examples for any board", board |-> ""])
    /\ UNCHANGED <<exDirs, exFiles, exPc, exTree, probe>>
    /\ UNCHANGED <<bmVars, actVars, descVars, oldVars>>

\* line 108: parseProperties has resolved; the library is added and the loop goes on
PropertiesParsed ==
    /\ le.pc = "props"
    /\ le' = nextLibrary([addLibrary(le) EXCEPT !.idx = @ + 1])
    /\ UNCHANGED <<exDirs, exFiles, exPc, exTree, probe>>
    /\ UNCHANGED <<bmVars, actVars, descVars, oldVars>>

\* line 108: parseProperties rejects, and so does loadExamples
PropertiesFail ==
    /\ le.pc = "props"
    /\ le' = [le EXCEPT !.pc = "failed"]
    /\ UNCHANGED <<exDirs, exFiles, exPc, exTree, probe>>
    /\ UNCHANGED <<bmVars, actVars, descVars, oldVars>>

\* lines 36-58: the await of a parseExamplesFromLibrary call ends; its group is
\* pushed and loadExamples goes on to its next await or to its return
CallReturns ==
    /\ le.pc = "returning"
    /\ LET pushed == [le EXCEPT !.examples =
                        Append(@, [name |-> le.groupName, children |-> returned(le)])]
           custom == [text |-> "Examples from Custom Libraries", board |-> ""]
       IN  le' = IF le.call = 1
                 THEN IF le.currentBoard # <<>>
                      THEN startCall([pushed EXCEPT !.boardAtLine43 = <<le.currentBoard>>], 2,
                                     [text |-> "Examples for",
                                      board |-> le.currentBoard[1].name])
                      ELSE startCall([pushed EXCEPT !.boardAtLine43 = <<le.currentBoard>>], 3,
                                     custom)
                 ELSE IF le.call = 2
                 THEN startCall(pushed, 3, custom)
                 ELSE [pushed EXCEPT !.pc = "done"]
    /\ UNCHANGED <<exDirs, exFiles, exPc, exTree, probe>>
    /\ UNCHANGED <<bmVars, actVars, descVars, oldVars>>

\* the board manager gets another current board while loadExamples is at an await
BoardChanges(board) ==
    /\ le.pc \in {"props", "returning"}
    /\ board # le.currentBoard
    /\ le' = [le EXCEPT !.currentBoard = board]
    /\ UNCHANGED <<exDirs, exFiles, exPc, exTree, probe>>
    /\ UNCHANGED <<bmVars, actVars, descVars, oldVars>>

ExamplesNext ==
    \/ LoadExamples
    \/ PropertiesParsed
    \/ PropertiesFail
    \/ CallReturns
    \/ \E board \in ExampleBoards : BoardChanges(board)

\* one loadExamples call; the libraries of the installation and of the board
\* are fixed, the custom libraries are any
InitExamples ==
    /\ le \in {[NoLoadExamples EXCEPT
                    !.currentBoard = b,
                    !.roots = << <<[name |-> "L1",
                                    folder |-> [hasProperties |-> TRUE,
                                                architectures |-> [declared |-> TRUE, text |-> Avr],
                                                tree |-> "one"]]>>,
                                 <<[name |-> "L1",
                                    folder |-> [hasProperties |-> TRUE,
                                                architectures |-> [declared |-> TRUE,
                                                                   text |-> MegaAvr],
                                                tree |-> "one"]]>>,
                                 r >>] :
                b \in ExampleBoards, r \in LibraryRoots}
    /\ exDirs = {}
    /\ exFiles = {}
    /\ exPc = "off"
    /\ exTree = [children |-> <<>>, exampleMap |-> <<>>]
    /\ probe = [called |-> FALSE]
    /\ BmIdle
    /\ ActIdle
    /\ DescIdle
    /\ OldIdle

SpecExamples == InitExamples /\ [][ExamplesNext]_vars

(***************************************************************************)
(* BoardManager.parseBoardDescriptorFile, exampleManager.ts lines 545-575   *)
(***************************************************************************)
MaxLines == 2

Hash == <<"#">>
MenuDot == <<"m", "e", "n", "u", ".">>
NameKey == <<"n", "a", "m", "e">>

\* the text lines a descriptor file is written from
DescLineSet == {
    <<"a", ".", "n", "a", "m", "e", "=", "v">>,
    <<"a", ".", "n", "a", "m", "e", "=", " ", "w", " ">>,
    <<"a", ".", "k", "=", "v">>,
    <<"a", ".", "k", "=", "w">>,
    <<"b", ".", "k", "=", "v">>,
    <<"a", ".", "n", "a", "m", "e", "=", "v", "=", "w">>,
    <<"a", ".", "k", "=", "v", "|", "w">>,
    <<"#", "a", ".", "k", "=", "v">>,
    <<"#", "x", "|", "a", ".", "n", "a", "m", "e", "=", "v">>,
    <<"m", "e", "n", "u", ".", "k", "=", "v">>,
    <<"a", ".", "k", " ", "b", ".", "k", "=", "v">>,
    <<"a", ".", "k">>,
    <<"a", ".", "k", "=">>,
    <<"a", "k", "=", "v">>,
    <<".", "k", "=", "v">>,
    <<>> }

Eols == { <<"\n">>, <<"\r", "\n">>, <<"\r">> }

\* the content of the file: its lines, joined by the line terminator
joinLines(lines, eol) ==
    IF lines = <<>> THEN <<>>
    ELSE FoldSeq(LAMBDA acc, l : acc \o eol \o l, Head(lines), Tail(lines))

\* line 549: the character class of /[\r|\r\n|\n]/
LineSeparators == {"\r", "|", "\n"}

\* line 546: /([^\.]+)\.(\S+)=(.+)/.exec(line), <<>> for null, otherwise the match
\* and its three groups.  The match is not anchored: group 1 is a longest run
\* without a dot that ends at a dot, the leftmost one for which the rest
\* matches; group 2 is greedy, so it ends at the last "=" that non-blank
\* characters lead to and that leaves a character for group 3.
boardLineRegexExec(line) ==
    LET dots == {d \in 2..Len(line) : line[d] = "." /\ line[d - 1] # "."}
        eqs(d) == {q \in (d + 2)..(Len(line) - 1) :
                        /\ line[q] = "="
                        /\ \A j \in (d + 1)..(q - 1) : line[j] \notin Whitespace}
        hits == {d \in dots : eqs(d) # {}}
    IN  IF hits = {} THEN <<>>
        ELSE
            LET d == CHOOSE x \in hits : \A y \in hits : x <= y
                q == CHOOSE x \in eqs(d) : \A y \in eqs(d) : x >= y
                before == {j \in 1..(d - 1) : line[j] = "."}
                from == IF before = {} THEN 1
                        ELSE (CHOOSE x \in before : \A y \in before : x >= y) + 1
            IN  << SubSeq(line, from, Len(line)),
                   SubSeq(line, from, d - 1),
                   SubSeq(line, d + 1, q - 1),
                   SubSeq(line, q + 1, Len(line)) >>

\* lines 551-573, one line; name is <<>> while undefined
parseBoardLine(result, line, plat) ==
    IF startsWith(line, Hash) \/ startsWith(line, MenuDot) THEN result
    ELSE
        LET match == boardLineRegexExec(line)
        IN  IF match # <<>> /\ Len(match) > 3
            THEN
                LET created ==
                        IF MapHas(result, match[2]) THEN result
                        ELSE MapSet(result, [key |-> match[2], board |-> match[2],
                                             platform |-> plat, parameters |-> <<>>,
                                             name |-> <<>>])
                    boardObject == MapGet(created, match[2])
                IN  IF match[3] = NameKey
                    THEN MapSet(created, [boardObject EXCEPT !.name = <<trim(match[4])>>])
                    ELSE MapSet(created,
                            [boardObject EXCEPT !.parameters =
                                MapSet(@, [key |-> match[3], value |-> match[4]])])
            ELSE result

\* lines 545-575
parseBoardDescriptorFile(boardDescriptor, plat) ==
    FoldSeq(LAMBDA result, line : parseBoardLine(result, line, plat),
            <<>>, split(boardDescriptor, LineSeparators))

AddLine(line) ==
    /\ descPc = "edit"
    /\ Len(descLines) < MaxLines
    /\ descLines' = Append(descLines, line)
    /\ UNCHANGED <<descEol, descPc, descBoards>>
    /\ UNCHANGED <<bmVars, actVars, exVars, oldVars>>

ParseBoardDescriptorFile ==
    /\ descPc = "edit"
    /\ descBoards' = parseBoardDescriptorFile(joinLines(descLines, descEol), "plat")
    /\ descPc' = "parsed"
    /\ UNCHANGED <<descEol, descLines>>
    /\ UNCHANGED <<bmVars, actVars, exVars, oldVars>>

DescNext ==
    \/ \E line \in DescLineSet : AddLine(line)
    \/ ParseBoardDescriptorFile

InitDesc ==
    /\ descEol \in Eols
    /\ descLines = <<>>
    /\ descPc = "edit"
    /\ descBoards = <<>>
    /\ BmIdle
    /\ ActIdle
    /\ ExIdle
    /\ OldIdle

SpecDesc == InitDesc /\ [][DescNext]_vars

(***************************************************************************)
(* Claims about the BoardManager                                           *)
(***************************************************************************)
\* the pairs package_index_bundled.json lists with a version
InBundled(pair) ==
    /\ bundled.kind = "json"
    /\ \E i \in DOMAIN bundled.packages :
        /\ bundled.packages[i].name = pair[1]
        /\ \E k \in DOMAIN bundled.packages[i].platforms :
            /\ bundled.packages[i].platforms[k].architecture = pair[2]
            /\ bundled.packages[i].platforms[k].version \notin {"", Undefined}

BundledVersionOf(pair) ==
    LET pkg == CHOOSE x \in Range(bundled.packages) : x.name = pair[1]
    IN  (CHOOSE x \in Range(pkg.platforms) : x.architecture = pair[2]).version

\* the version directories of a pair in the user package directory
UserVersionsOf(pair) ==
    IF userDir.exists
       /\ \E d \in Range(userDir.dirs) :
            d.packageName = pair[1] /\ d.hasHardware
            /\ \E a \in Range(d.architectures) : a.architecture = pair[2]
    THEN LET d == CHOOSE x \in Range(userDir.dirs) : x.packageName = pair[1]
         IN  (CHOOSE a \in Range(d.architectures) : a.architecture = pair[2]).versions
    ELSE <<>>

InUser(pair) == UserVersionsOf(pair) # <<>>

ScanEntries(pair) ==
    {i \in DOMAIN bm.installedScan :
        bm.installedScan[i].packageName = pair[1]
        /\ bm.installedScan[i].architecture = pair[2]}

\* C1: getInstalledPlatforms returns, for a pair that is bundled and in the user
\* directory, one entry with the user-installed version and directory and
\* defaultPlatform = false; for a pair of one source only, that source's entry;
\* and nothing else.
C1_UserInstalledOverwritesBundled ==
    lp["c1"].pc = "done" =>
        \A pair \in Pairs :
            IF InUser(pair)
            THEN /\ Cardinality(ScanEntries(pair)) = 1
                 /\ \A i \in ScanEntries(pair) :
                        bm.installedScan[i] =
                            [packageName |-> pair[1], architecture |-> pair[2],
                             version |-> UserVersionsOf(pair)[1],
                             rootBoardPath |-> UserPath(pair[1], pair[2], UserVersionsOf(pair)[1]),
                             defaultPlatform |-> FALSE]
            ELSE IF InBundled(pair)
            THEN /\ Cardinality(ScanEntries(pair)) = 1
                 /\ \A i \in ScanEntries(pair) :
                        bm.installedScan[i] =
                            [packageName |-> pair[1], architecture |-> pair[2],
                             version |-> BundledVersionOf(pair),
                             rootBoardPath |-> DefaultPath(pair[1], pair[2]),
                             defaultPlatform |-> TRUE]
            ELSE ScanEntries(pair) = {}

\* a finished load with a pair in both sources, a pair only bundled and a pair only in the user directory
C1_Witness ==
    /\ lp["c1"].pc = "done"
    /\ \E p1, p2, p3 \in Pairs :
        /\ InUser(p1) /\ InBundled(p1)
        /\ InBundled(p2) /\ ~InUser(p2)
        /\ InUser(p3) /\ ~InBundled(p3)
        /\ Len(bm.installedScan) >= 3

\* the entries of the bundled platform list for a pair
DefaultEntries(pair) ==
    {i \in DOMAIN getDefaultPlatforms(bundled) :
        getDefaultPlatforms(bundled)[i].packageName = pair[1]
        /\ getDefaultPlatforms(bundled)[i].architecture = pair[2]}

LogOf(pkg, arch) ==
    SelectSeq(bm.indexLog, LAMBDA e : e.package = pkg /\ e.architecture = arch)

PlatformsOf(pkg, arch) ==
    {i \in DOMAIN bm.platforms :
        bm.platforms[i].package = pkg /\ bm.platforms[i].architecture = arch}

\* C2: platforms holds exactly one platform per (package name, architecture) pair
\* of the index entries parsed; its versions are the versions of the pair's
\* entries in reading order, and its version field is "".
C2_OnePlatformPerPairWithVersionsInOrder ==
    /\ \A pair \in Pairs :
        Cardinality(PlatformsOf(pair[1], pair[2])) =
            IF LogOf(pair[1], pair[2]) = <<>> THEN 0 ELSE 1
    /\ \A i \in DOMAIN bm.platforms :
        LET p == bm.platforms[i]
            entries == LogOf(p.package, p.architecture)
        IN  /\ p.versions = [k \in DOMAIN entries |-> entries[k].version]
            /\ p.version = ""

\* a finished load of two files: a platform with two versions beside another platform
C2_Witness ==
    /\ lp["c1"].pc = "done"
    /\ indexFiles = 2
    /\ Len(bm.platforms) >= 2
    /\ \E i \in DOMAIN bm.platforms :
        /\ Len(bm.platforms[i].versions) >= 2
        /\ bm.platforms[i].versions[1] # bm.platforms[i].versions[2]

\* C3: the boards of a merged platform hold every board name of every index
\* entry of its pair, each name once.
C3_BoardsAreTheUnionOfTheEntries ==
    \A i \in DOMAIN bm.platforms :
        LET p == bm.platforms[i]
            entries == LogOf(p.package, p.architecture)
        IN  /\ Range(p.boards) = UNION {Range(entries[k].boards) : k \in DOMAIN entries}
            /\ \A j, k \in DOMAIN p.boards : j # k => p.boards[j] # p.boards[k]

\* a platform merged from two entries that share one board name and differ in another
C3_Witness ==
    \E i \in DOMAIN bm.platforms :
        LET entries == LogOf(bm.platforms[i].package, bm.platforms[i].architecture)
        IN  /\ Len(entries) >= 2
            /\ Range(entries[1].boards) \cap Range(entries[2].boards) # {}
            /\ Range(entries[2].boards) \ Range(entries[1].boards) # {}
            /\ Len(bm.platforms[i].boards) = 2

\* the number of index files a trace has read before position q
ReadsBefore(t, q) == Cardinality({x \in 1..(q - 1) : t[x].ev = "read"})

\* C15: a loadPackages call reads the index files in order, and a refresh is
\* setPref followed by initialize(true).  With update=true the only refresh is
\* the one that opens the call, before any read, also when a file is still
\* missing afterwards.  With update=false a refresh is made only for a file that
\* is missing when the loop reaches it, once, and the read of that file comes next;
\* no refresh is made for a file that exists.
C15_RefreshOncePerCallOrPerMissingFile ==
    \A c \in Calls :
        LET t == lp[c].trace
        IN  /\ \A q \in DOMAIN t :
                    t[q].ev = "read" => t[q].file = ReadsBefore(t, q) + 1
            /\ lp[c].pc = "done" => ReadsBefore(t, Len(t) + 1) = indexFiles
            /\ \A q \in DOMAIN t :
                    t[q].ev = "initialize" =>
                        q > 1 /\ t[q - 1].ev = "setPref" /\ t[q - 1].file = t[q].file
            /\ lp[c].update =>
                /\ t # <<>> => t[1].ev = "setPref"
                /\ \A q \in DOMAIN t : t[q].ev = "setPref" => q = 1
                /\ \A q \in DOMAIN t : t[q].ev = "read" => q >= 3
            /\ ~lp[c].update =>
                \A q \in DOMAIN t :
                    t[q].ev = "setPref" =>
                        /\ t[q].file \notin t[q].present
                        /\ t[q].file = ReadsBefore(t, q) + 1
                        /\ \A x \in DOMAIN t :
                                (t[x].ev = "setPref" /\ t[x].file = t[q].file) => x = q
                        /\ q + 2 <= Len(t) =>
                                t[q + 2].ev = "read" /\ t[q + 2].file = t[q].file

\* a call with update=false has completed after a refresh for each of two files
C15_Witness ==
    \E c \in Calls :
        /\ lp[c].pc = "done"
        /\ ~lp[c].update
        /\ \E q1, q2 \in DOMAIN lp[c].trace :
            /\ lp[c].trace[q1].ev = "setPref"
            /\ lp[c].trace[q2].ev = "setPref"
            /\ lp[c].trace[q1].file # lp[c].trace[q2].file

\* what one loadPackages call leaves when every index file exists
SingleCall == runLoop(resetLoad(NewBoardManager), 1, TRUE, FALSE, 1..indexFiles).bm

\* C17: when two loadPackages calls have completed, overlapping or not, platforms
\* (with each platform's versions) and the installed-platform list are what a
\* single call leaves.
C17_TwoCallsLeaveWhatOneCallLeaves ==
    (\A c \in Calls : lp[c].pc = "done") =>
        /\ bm.platforms = SingleCall.platforms
        /\ bm.installedPlatforms = SingleCall.installedPlatforms

\* C20: after a completed loadPackages the packages getter returns every package
\* of every index file.
C20_PackagesGetterReturnsEveryPackage ==
    \A c \in Calls :
        lp[c].pc = "done" =>
            \A i \in 1..indexFiles :
                \A k \in DOMAIN indexContent[i] :
                    \E p \in Range(bm.packages) : p.name = indexContent[i][k].name

\* the boards of the registry that belong to the pair
BoardsOfPair(pkgName, arch) ==
    SelectSeq(bm.boards, LAMBDA b : b.key[1] = pkgName /\ b.key[2] = arch)

\* the pair is listed in an index file that was loaded
InIndex(pkgName, arch) ==
    \E i \in DOMAIN bm.platforms :
        bm.platforms[i].package = pkgName /\ bm.platforms[i].architecture = arch

\* C13: after updateInstalledPlatforms(pkgName, arch) for a platform of the index
\* with a version in the user package directory, the platform is in the
\* installed-platform list with the user-installed version and its directory,
\* and its boards in the registry are those of that directory.
C13_UpdateResolvesToTheUserInstalledVersion ==
    (/\ bm.last.op = "update"
     /\ Len(bm.last.allVersion) > 0
     /\ InIndex(bm.last.pkgName, bm.last.arch)) =>
        LET userPath == UserPath(bm.last.pkgName, bm.last.arch, bm.last.allVersion[1])
        IN  /\ \E k \in DOMAIN bm.installedPlatforms :
                LET plat == bm.platforms[bm.installedPlatforms[k]]
                IN  /\ plat.package = bm.last.pkgName
                    /\ plat.architecture = bm.last.arch
                    /\ plat.installedVersion = bm.last.allVersion[1]
                    /\ plat.rootBoardPath = userPath
            /\ \A i \in DOMAIN BoardsOfPair(bm.last.pkgName, bm.last.arch) :
                BoardsOfPair(bm.last.pkgName, bm.last.arch)[i].rootBoardPath = userPath
            /\ {BoardsOfPair(bm.last.pkgName, bm.last.arch)[i].key[3] :
                    i \in DOMAIN BoardsOfPair(bm.last.pkgName, bm.last.arch)}
               = Range(BoardsTxt(userPath).ids)

\* C14: when no call is running, every element of the installed-platform list is
\* an element of platforms with a non-empty installedVersion and a rootBoardPath,
\* no (package, architecture) pair is in the list twice, and every element is a
\* platform of some index file.
C14_InstalledListIsWellFormed ==
    NoLoadRunning =>
        /\ \A k \in DOMAIN bm.installedPlatforms :
            /\ bm.installedPlatforms[k] \in DOMAIN bm.platforms
            /\ ~Falsy(bm.platforms[bm.installedPlatforms[k]].installedVersion)
            /\ bm.platforms[bm.installedPlatforms[k]].rootBoardPath # <<>>
            /\ \E i \in 1..indexFiles :
                \E p \in DOMAIN indexContent[i] :
                    /\ indexContent[i][p].name
                            = bm.platforms[bm.installedPlatforms[k]].package
                    /\ \E q \in DOMAIN indexContent[i][p].platforms :
                        indexContent[i][p].platforms[q].architecture
                            = bm.platforms[bm.installedPlatforms[k]].architecture
        /\ \A k1, k2 \in DOMAIN bm.installedPlatforms :
            (/\ bm.platforms[bm.installedPlatforms[k1]].package
                    = bm.platforms[bm.installedPlatforms[k2]].package
             /\ bm.platforms[bm.installedPlatforms[k1]].architecture
                    = bm.platforms[bm.installedPlatforms[k2]].architecture) => k1 = k2

\* updateInstalledPlatforms has run twice over for platforms that were installed
\* already, one from the bundled file and one by an earlier call, while esp:avr
\* is installed and in no index file
C14_Witness ==
    /\ NoLoadRunning
    /\ bm.last.op = "update"
    /\ Len(bm.last.allVersion) > 0
    /\ Len(bm.installedPlatforms) = 2
    /\ bm.platforms[bm.installedPlatforms[1]].installedVersion = "1.6.0"
    /\ bm.last.pkgName = "arduino"
    /\ bm.last.arch = "avr"
    /\ readArchPath(userDir, "esp", "avr").allVersion # <<>>

\* C18: after a completed loadPackages currentBoard is unset or the registry's
\* entry for the device context's board, and the board status bar shows
\* '<Select Board Type>' exactly when that board is not in the registry.
C18_CurrentBoardIsTheRegistryEntryOfTheSelection ==
    bm.last.op = "load" =>
        /\ \/ bm.currentBoard = <<>>
           \/ /\ MapHas(bm.boards, dc.board)
              /\ bm.currentBoard = <<MapGet(bm.boards, dc.board)>>
        /\ (bm.boardStatusText = "<Select Board Type>") <=> ~MapHas(bm.boards, dc.board)

\* what changeBoardType leaves when it has picked board b
PickedIs(b) ==
    /\ bm.currentBoard = <<b>>
    /\ dc.board = b.key
    /\ dc.configuration = b.customConfig
    /\ bm.boardStatusText = b.name
    /\ bm.configStatusShown <=> (dc.configuration # "")

\* C19 as stated: changeBoardType with an empty registry or a dismissed picker
\* changes neither currentBoard nor the device context nor the status bar items;
\* with a picked board b it leaves currentBoard b, the device context at b.key
\* and b.customConfig, the board status text b.name and the config status bar
\* shown exactly when that configuration is not empty.
C19_ChangeBoardTypeWritesThePickedBoard ==
    bm.last.op = "change" =>
        IF bm.last.outcome \in {"noBoards", "dismissed"}
        THEN Selection = bm.last.before
        ELSE PickedIs(bm.last.picked)

\* C19 amended: as above when the picked board has a name; the pick of a board
\* without a name changes nothing, like a dismissal.
C19_ChangeBoardTypeWritesOnlyANamedPick ==
    bm.last.op = "change" =>
        IF bm.last.outcome \in {"noBoards", "dismissed"}
        THEN Selection = bm.last.before
        ELSE IF Falsy(bm.last.picked.name)
        THEN Selection = bm.last.before
        ELSE PickedIs(bm.last.picked)

\* the user picked a board with a configuration while another board was current
C19_Witness ==
    /\ bm.last.op = "change"
    /\ bm.last.outcome = "picked"
    /\ bm.last.picked.customConfig # ""
    /\ bm.last.before.currentBoard # <<>>
    /\ bm.last.before.currentBoard # <<bm.last.picked>>
    /\ bm.last.before.dc.configuration = ""


\* C16: in the earlier loadPackages, when loadInstalledPlatforms and the steps
\* after it have run, every index file had been read and parsed before.
C16_EveryIndexFileIsParsedBeforeTheInstalledScan ==
    old.pc \in {"done", "failed"} => Range(old.parsedAtTail) = 1..indexFiles


\* C27: after the earlier loadInstalledBoards, the registry holds, for every
\* installed platform and every board id of its boards.txt, a board with that
\* id whose platform is that platform.
C27_EveryPlatformKeepsItsBoards ==
    old.pc = "done" =>
        \A k \in DOMAIN old.installedPlatforms :
            \A id \in Range(BoardsTxt(old.platforms[old.installedPlatforms[k]].rootBoardPath).ids) :
                \E j \in DOMAIN old.boards :
                    /\ old.boards[j].key = id
                    /\ old.boards[j].platform = old.installedPlatforms[k]

(***************************************************************************)
(* Claims about activation and the web bridge                              *)
(***************************************************************************)
\* C4 as stated: loadPackages is executed once per session; once activation
\* has completed no later operation runs it again.
C4_LoadPackagesRunsOncePerSession ==
    initPc = "done" => loadCalls.activation + loadCalls.bridge = 1

\* C4 amended: activation runs loadPackages once, and the web bridge runs it
\* once more for every request to /api/boardpackages (getBoardPackages); no other
\* handler runs it.
C4_LoadPackagesRunsPerActivationAndPerRequest ==
    /\ loadCalls.activation <= 1
    /\ initPc \in {"load", "done"} => loadCalls.activation = 1
    /\ loadCalls.bridge =
        Cardinality({r \in Requests : req[r].handler = "getBoardPackages"})

\* activation has completed, then a request to /api/boardpackages and a request to
\* /api/libraries were served
C4_Witness ==
    /\ initPc = "done"
    /\ loadCalls.activation = 1
    /\ loadCalls.bridge = 1
    /\ \E r1, r2 \in Requests :
        /\ req[r1].handler = "getBoardPackages" /\ req[r1].pc = "ended"
        /\ req[r2].handler = "getLibraries" /\ req[r2].pc = "ended"

\* C5: the initialization body is started at most once, and a call of activate
\* returns only when that initialization has finished (and throws only when it
\* has failed).
C5_InitializesOnceAndCallersWait ==
    /\ initStarted <= 1
    /\ \A c \in Callers :
        /\ activateCalls[c].pc = "returned" => initPc = "done"
        /\ activateCalls[c].pc = "threw" => initPc = "failed"
        /\ activateCalls[c].pc # "idle" => initStarted = 1

\* two calls have returned: one started the initialization, the other came
\* while it was pending
C5_Witness ==
    \E c1, c2 \in Callers :
        /\ activateCalls[c1] = [pc |-> "returned", joined |-> "started"]
        /\ activateCalls[c2] = [pc |-> "returned", joined |-> "pending"]
        /\ initStarted = 1

\* C10: every request whose wrapped handler has run to its end has received
\* exactly one response, also when the manager call behind the handler threw.
C10_EveryRequestGetsOneResponse ==
    \A r \in Requests : req[r].pc = "ended" => req[r].responses = 1

\* the body parameters each POST route requires
RequiredOf(h) ==
    CASE h = "installPackage" -> {"packageName", "arch"}
      [] h = "uninstallPackage" -> {"packagePath"}
      [] h = "openLink" -> {"link"}
      [] h = "installLibrary" -> {"libraryName"}
      [] h = "uninstallLibrary" -> {"libraryPath"}
      [] h = "addLibPath" -> {"libraryPath"}
      [] h = "updateConfig" -> {"configId", "optionId"}
      [] h = "openExample" -> {"examplePath"}
      [] OTHER -> {}

\* C11: a request to a POST route that lacks one of the route's required body
\* parameters is answered with status 400, and the operation behind the route is
\* not invoked.
C11_MissingParameterIsAnsweredWith400 ==
    \A r \in Requests :
        (req[r].pc # "none" /\ RequiredOf(req[r].handler) \ req[r].body # {}) =>
            /\ req[r].responses = 1
            /\ req[r].status = 400
            /\ req[r].op = "none"

\* an installboard request that carries packageName but no arch has been answered
\* and its handler has ended
C11_Witness ==
    \E r \in Requests :
        /\ req[r].handler = "installPackage"
        /\ req[r].body = {"packageName"}
        /\ req[r].pc = "ended"
        /\ req[r].status = 400

\* C12: for a POST route whose required parameters are present, status OK is
\* sent only when the operation has completed without throwing, an operation
\* that threw is answered with status 500, and there is at most one response.
C12_OkOnlyAfterTheOperationSucceeded ==
    \A r \in Requests :
        (IsPost(req[r].handler) /\ RequiredOf(req[r].handler) \subseteq req[r].body) =>
            /\ req[r].status = 200 => req[r].op = "done"
            /\ req[r].op = "threw" => req[r].status = 500
            /\ req[r].responses <= 1

C28_NothingIsPublishedBeforeThePackagesAreLoaded ==
    /\ ctx.boardManager => initPc = "done"
    /\ ctx.arduinoApp => initPc = "done" /\ ctx.libraryManager /\ ctx.exampleManager

\* C29: when the initialization has failed, no call of activate returns: the
\* call that started it, the calls that waited for it and the later calls throw
\* when they settle; the initialization body is never started a second time
\* and nothing more is published.
C29_FailureReachesEveryCallAndIsFinal ==
    /\ initStarted <= 1
    /\ initializePromise = "rejected" <=> initPc = "failed"
    /\ initPc = "failed" =>
            /\ \A c \in Callers : activateCalls[c].pc \in {"idle", "awaiting", "threw"}
            /\ ~ctx.arduinoApp
    /\ \A c \in Callers : activateCalls[c].pc = "threw" => initPc = "failed"

\* the call that started the failed initialization has thrown, and so has a
\* call made after the failure
C29_Witness ==
    \E c1, c2 \in Callers :
        /\ activateCalls[c1] = [pc |-> "threw", joined |-> "started"]
        /\ activateCalls[c2] = [pc |-> "threw", joined |-> "rejected"]
        /\ initStarted = 1

(***************************************************************************)
(* Claims about the ExampleManager                                         *)
(***************************************************************************)
\* the directory p directly contains a file whose name ends in .ino
HasInoFile(p) ==
    \E f \in exFiles : Len(f) = Len(p) + 1 /\ dirname(f) = p /\ endsWith(basename(f), DotIno)

NodeOf(p) == MapGet(exTree.exampleMap, p).node
NodePaths == {e.key : e \in Range(exTree.exampleMap)} \ {<<>>}
TimesIn(s, x) == Cardinality({i \in DOMAIN s : s[i] = x})

\* C6: parseExamples returns an empty list when the root directory does not exist;
\* otherwise every node is the node of a directory, attached once to the node of its
\* parent directory (the returned list for the directories of the root) and to no
\* other node, it is a leaf exactly when its directory directly contains a file whose
\* name ends in .ino, a leaf has no children, and no directory below a leaf has a node.
C6_ExampleTreeFollowsTheDirectories ==
    exPc = "parsed" =>
        IF <<>> \notin exDirs
        THEN exTree.children = <<>> /\ exTree.exampleMap = <<>>
        ELSE
            /\ exTree.children = NodeOf(<<>>).children
            /\ \A q \in NodePaths \cup {<<>>} : Range(NodeOf(q).children) \subseteq NodePaths
            /\ \A p \in NodePaths :
                /\ p \in exDirs
                /\ NodeOf(p).path = p
                /\ NodeOf(p).name = basename(p)
                /\ \A q \in NodePaths \cup {<<>>} :
                    TimesIn(NodeOf(q).children, p) = IF q = dirname(p) THEN 1 ELSE 0
                /\ NodeOf(p).isLeaf = <<HasInoFile(p)>>
                /\ HasInoFile(p) => NodeOf(p).children = <<>>
                /\ \A k \in 1..(Len(p) - 1) : ~HasInoFile(SubSeq(p, 1, k))

\* a parsed tree with a leaf that has a directory below it, which has a directory
\* below it, and neither of the two has a node
C6_Witness ==
    /\ exPc = "parsed"
    /\ \E p \in NodePaths :
        /\ NodeOf(p).isLeaf = <<TRUE>>
        /\ \E n, m \in Range(DirNames) :
            /\ Append(Append(p, n), m) \in exDirs
            /\ Append(p, n) \notin NodePaths
            /\ Append(Append(p, n), m) \notin NodePaths

\* the entries of a comma-separated architectures value
ListedArchitectures(text) == {trim(e) : e \in Range(split(text, {","}))}

\* C7: a library that declares no architectures is never compatible; with no board
\* selected every library that declares architectures is compatible; with a
\* board selected a library is compatible exactly when the board's architecture
\* is one of the entries of its architectures list or the list contains "*".
C7_CompatibleIffArchitectureListed ==
    probe.called =>
        probe.result =
            IF ~probe.architectures.declared \/ probe.architectures.text = <<>> THEN FALSE
            ELSE IF probe.currentBoard = <<>> THEN TRUE
            ELSE \/ probe.currentBoard[1].platform.architecture
                        \in ListedArchitectures(probe.architectures.text)
                 \/ Star \in ListedArchitectures(probe.architectures.text)

(***************************************************************************)
(* Claims about the board descriptor parser                                *)
(***************************************************************************)
FirstOf(line, ch) ==
    LET at == {i \in DOMAIN line : line[i] = ch}
    IN  IF at = {} THEN 0 ELSE CHOOSE i \in at : \A j \in at : i <= j

\* the line reads <id>.<key>=<value>: an id up to the first dot, a key up to
\* the first "=", a value after it, none of them empty
HasBoardLineForm(line) ==
    /\ ~startsWith(line, Hash)
    /\ ~startsWith(line, MenuDot)
    /\ FirstOf(line, ".") > 1
    /\ FirstOf(line, "=") > FirstOf(line, ".") + 1
    /\ FirstOf(line, "=") < Len(line)

IdOf(line) == SubSeq(line, 1, FirstOf(line, ".") - 1)
KeyOf(line) == SubSeq(line, FirstOf(line, ".") + 1, FirstOf(line, "=") - 1)
ValueOf(line) == SubSeq(line, FirstOf(line, "=") + 1, Len(line))

LinesOf(id, key) ==
    {i \in DOMAIN descLines :
        /\ HasBoardLineForm(descLines[i])
        /\ IdOf(descLines[i]) = id
        /\ KeyOf(descLines[i]) = key}
LastValueOf(id, key) ==
    ValueOf(descLines[CHOOSE i \in LinesOf(id, key) : \A j \in LinesOf(id, key) : i >= j])

\* the registry the lines of the file describe
DescribedBoards ==
    LET formed == {i \in DOMAIN descLines : HasBoardLineForm(descLines[i])}
        keysOf(id) == {KeyOf(descLines[i]) : i \in {j \in formed : IdOf(descLines[j]) = id}}
    IN  {[board |-> id,
          name |-> IF LinesOf(id, NameKey) = {} THEN <<>>
                   ELSE <<trim(LastValueOf(id, NameKey))>>,
          parameters |-> {<<k, LastValueOf(id, k)>> : k \in keysOf(id) \ {NameKey}}]
            : id \in {IdOf(descLines[i]) : i \in formed}}

\* the registry the parser returned
ParsedBoards ==
    {[board |-> e.board, name |-> e.name,
      parameters |-> {<<x.key, x.value>> : x \in Range(e.parameters)}]
        : e \in Range(descBoards)}

\* C8: the registry holds exactly the boards of the lines <id>.<key>=<value>, each
\* with the trimmed value of its last name line as its name and with the value of
\* the last line of every other key in its parameters; other lines add nothing.
C8_RegistryHoldsTheDescribedBoards ==
    descPc = "parsed" => ParsedBoards = DescribedBoards

\* C9: the lines that begin with "#" or with "menu." have no effect: parsing the
\* file gives what parsing the file without these lines gives.
C9_CommentAndMenuLinesHaveNoEffect ==
    descPc = "parsed" =>
        descBoards =
            parseBoardDescriptorFile(
                joinLines(SelectSeq(descLines,
                              LAMBDA l : ~startsWith(l, Hash) /\ ~startsWith(l, MenuDot)),
                          descEol),
                "plat")

\* C25: for every line <id>.<key>=<value> the board is the text before the first
\* ".", the key the text between the first "." and the first "=", and the value
\* everything after that "=": the registry holds that board with that value
\* under that key (as its name, trimmed, for the key name), the last line of a
\* key deciding. Stated for keys without blanks in files without "|".
C25_ValueIsEverythingAfterTheFirstEquals ==
    descPc = "parsed" =>
        \A i \in DOMAIN descLines :
            (/\ HasBoardLineForm(descLines[i])
             /\ \A l \in Range(descLines) : "|" \notin Range(l)
             /\ Range(KeyOf(descLines[i])) \cap Whitespace = {}
             /\ \A j \in LinesOf(IdOf(descLines[i]), KeyOf(descLines[i])) : j <= i) =>
                \E b \in ParsedBoards :
                    /\ b.board = IdOf(descLines[i])
                    /\ IF KeyOf(descLines[i]) = NameKey
                       THEN b.name = <<trim(ValueOf(descLines[i]))>>
                       ELSE <<KeyOf(descLines[i]), ValueOf(descLines[i])>> \in b.parameters

\* C26: the descriptor is split into lines at the line terminators only: the
\* non-empty pieces the parser processes are the non-empty text lines of the file.
C26_LinesAreSplitAtLineTerminatorsOnly ==
    descPc = "parsed" =>
        SelectSeq(split(joinLines(descLines, descEol), LineSeparators), LAMBDA l : l # <<>>)
            = SelectSeq(descLines, LAMBDA l : l # <<>>)

\* the libraries of a root that parseExamplesFromLibrary considers: those with a
\* library.properties file and a non-empty example tree
Considered(root) ==
    {k \in 1..Len(root) :
        /\ root[k].folder.hasProperties
        /\ parseExamples(ExampleDirs(root[k].folder.tree).dirs,
                         ExampleDirs(root[k].folder.tree).files).children # <<>>}

\* compatibility as the architectures list defines it: the board's architecture
\* is an entry of the list, or '*' is
ListedCompatible(architectures, currentBoard) ==
    IF ~architectures.declared \/ architectures.text = <<>> THEN FALSE
    ELSE IF currentBoard = <<>> THEN TRUE
    ELSE \/ currentBoard[1].platform.architecture \in ListedArchitectures(architectures.text)
         \/ Star \in ListedArchitectures(architectures.text)

\* the board that was current when library k of the call was tested
BoardAtCheck(call, k) ==
    (CHOOSE c \in Range(le.checks) : c.call = call /\ c.idx = k).currentBoard

\* the names of the libraries of a root, in its order, that satisfy Keep
LibraryNames(root, Keep(_)) ==
    LET RECURSIVE from(_)
        from(k) == IF k > Len(root) THEN <<>>
                   ELSE IF Keep(k) THEN <<root[k].name>> \o from(k + 1)
                   ELSE from(k + 1)
    IN  from(1)

NodeNames(nodes) == [i \in 1..Len(nodes) |-> nodes[i].name]

\* the group that a parseExamplesFromLibrary call has filled
GroupOfCall(call) ==
    IF call = 1 THEN le.examples[2]
    ELSE IF call = 2 THEN le.examples[3]
    ELSE le.examples[Len(le.examples)]

CallsMade == IF le.boardAtLine43 = <<<<>>>> THEN {1, 3} ELSE {1, 2, 3}

\* C24: parseExamplesFromLibrary considers only the libraries that have a
\* library.properties file and a non-empty example tree.  With
\* needParsingIncompatible=true every such library appears exactly once: at the
\* top level, in order, if it is compatible with the board, and otherwise under
\* one 'INCOMPATIBLE' node, which is the last element and exists iff some
\* considered library is incompatible.  With needParsingIncompatible=false the
\* result is the compatible considered libraries and nothing else.
C24_LibrariesAreSortedByCompatibility ==
    le.pc = "done" =>
        \A call \in CallsMade :
            LET root == le.roots[call]
                Compatible(k) ==
                    k \in Considered(root)
                    /\ ListedCompatible(root[k].folder.architectures, BoardAtCheck(call, k))
                Incompatible(k) ==
                    k \in Considered(root)
                    /\ ~ListedCompatible(root[k].folder.architectures, BoardAtCheck(call, k))
                top == LibraryNames(root, Compatible)
                rest == LibraryNames(root, Incompatible)
                nodes == GroupOfCall(call).children
            IN  IF call = 3 /\ rest # <<>>
                THEN /\ Len(nodes) = Len(top) + 1
                     /\ SubSeq(NodeNames(nodes), 1, Len(top)) = top
                     /\ nodes[Len(nodes)].name = "INCOMPATIBLE"
                     /\ NodeNames(nodes[Len(nodes)].children) = rest
                ELSE NodeNames(nodes) = top

\* C23: loadExamples returns 'Built-in Examples', 'Examples for any board',
\* 'Examples for <board name>' iff a current board is set, and 'Examples from
\* Custom Libraries', in this order; a node named 'INCOMPATIBLE' occurs only
\* in the last group.
C23_GroupsComeInAFixedOrder ==
    le.pc = "done" =>
        LET builtIn == [text |-> "Built-in Examples", board |-> ""]
            anyBoard == [text |-> "Examples for any board", board |-> ""]
            custom == [text |-> "Examples from Custom Libraries", board |-> ""]
            board == le.boardAtLine43[1]
        IN  /\ NodeNames(le.examples) =
                    IF board = <<>> THEN <<builtIn, anyBoard, custom>>
                    ELSE <<builtIn, anyBoard,
                           [text |-> "Examples for", board |-> board[1].name], custom>>
            /\ \A g \in 2..(Len(le.examples) - 1) :
                    \A n \in Range(le.examples[g].children) : n.name # "INCOMPATIBLE"

\* a call with a board set, whose custom libraries have an incompatible one
C23_Witness ==
    /\ le.pc = "done"
    /\ Len(le.examples) = 4
    /\ \E n \in Range(le.examples[4].children) : n.name = "INCOMPATIBLE"


====
